---- MODULE Spec2Model ----
(***************************************************************************)
(* Verification model of the financial health scoring engine of            *)
(* nexus-caiwu-agent: the per-metric benchmark scorer and the industry     *)
(* adjusted aggregate (scripts/industry_scorer.py), the industry           *)
(* classifier and benchmark table (scripts/industry_classifier.py,         *)
(* scripts/industry_benchmarks.py) and the five-dimension generic scorer   *)
(* (scripts/fetch_data.py, calculate_health_score_v2) with the derived     *)
(* metrics that feed it (calculate_advanced_metrics), and of the network   *)
(* layer that fetches the statements (scripts/network_client.py: the       *)
(* shared NetworkConfig, retry_on_error and NetworkClient).                *)
(*                                                                         *)
(* Numbers.  Metric values, benchmark bounds, weights and scores are held  *)
(* as integers counting hundredths (25.18 is 2518, the weight 0.15 is 15,  *)
(* the score 62.38 is 6238).  Arithmetic is exact; Python's round(x, 2) is *)
(* modelled by Round2, which rounds an exact quotient to the nearest       *)
(* hundredth.  Where the exact quotient lies half-way between two          *)
(* hundredths the result of the Python code depends on the binary          *)
(* rounding error of its float operands (for the benchmark min 6, max 22,  *)
(* ideal 13 Python gives 62.37 for the value 16.01 and 62.38 for 9.99, the *)
(* exact score of both being 62.375).  The model keeps that direction      *)
(* open: round_up is fixed arbitrarily when a behaviour starts, one        *)
(* direction per rounding site, and never changes afterwards, so that the  *)
(* same call on the same input always returns the same result.             *)
(*                                                                         *)
(* Strings.  The Chinese labels of the source are written in ASCII; the    *)
(* source text is given in the comment beside each label.                  *)
(***************************************************************************)
EXTENDS Integers, Sequences, FiniteSets, TLC

VARIABLES
    benchmarks, \* IndustryClassifier.benchmarks: the benchmark table
    sw_mapping, \* IndustryClassifier.sw_mapping: the sector lookup table
    round_up,   \* [site -> BOOLEAN]: direction round() takes on an exact tie
    bench,      \* the benchmark handed to calculate_metric_score
    cur,        \* result of the latest calculate_metric_score call
    metrics,    \* the caller's metrics dict: key -> None, text or number
    security,   \* the security analysed: stock_code, company_name, sw_industry
    edits,      \* entries of metrics the caller has changed so far
    classified, \* result of the latest classify call
    matches,    \* result of the latest get_industry_matches call
    health,     \* result of the latest calculate_health_score_v2 call
    industry,   \* result of the latest calculate_industry_adjusted_score call
    income,     \* the income statement handed to calculate_advanced_metrics
    balance,    \* the balance sheet handed to calculate_advanced_metrics
    cashflow,   \* the cash flow statement handed to it, or None
    advanced,   \* result of the latest calculate_advanced_metrics call
    global_config, \* network_client._global_config.config
    environ,    \* os.environ: the proxy variables
    client,     \* the NetworkClient constructed last
    wrapper     \* the running call of a function wrapped by retry_on_error

vars ==
    <<benchmarks, sw_mapping, round_up, bench, cur, metrics, security, edits,
      classified, matches, health, industry, income, balance, cashflow,
      advanced, global_config, environ, client, wrapper>>

(***************************************************************************)
(* Python values                                                           *)
(***************************************************************************)
None == [t |-> "none"]
Num(v) == [t |-> "num", v |-> v]
NoCall == [t |-> "nocall"]    \* no call has been made yet

Abs(x) == IF x < 0 THEN -x ELSE x
Range(seq) == {seq[i] : i \in 1 .. Len(seq)}

\* where a rounding happens: the score of a value below / above ideal, and
\* every rounding of a derived quantity (weighted, final, normalized score)
TieSites == {"below", "above", "derived"}

\* round(num / den) to the nearest integer, den > 0; up is the direction
\* taken when num / den is exactly half-way
Round2(num, den, up) ==
    LET q == num \div den
        r == num % den
    IN  IF 2 * r < den THEN q
        ELSE IF 2 * r > den THEN q + 1
        ELSE IF up THEN q + 1 ELSE q

\* max(0, 100 * (n / d)) in hundredths, d # 0
PctClamped(n, d, up) ==
    IF n = 0 \/ (n < 0) # (d < 0) THEN 0
    ELSE Round2(10000 * Abs(n), Abs(d), up)

(***************************************************************************)
(* IndustryScorer.calculate_metric_score                                   *)
(***************************************************************************)
\* line 68
Deviation(v, ideal) == Abs(v - ideal)

\* lines 63-71, min_val <= v <= max_val: closer to ideal is better, the
\* largest deviation allowed is half the range width
InRangeScore_FullWidth(v, min_val, max_val, ideal, up) ==
    LET range_width == max_val - min_val
        deviation == Deviation(v, ideal)
    IN  IF range_width = 0
        THEN (IF v = ideal THEN 10000 ELSE 5000)
        ELSE IF range_width - deviation <= 0 THEN 0
        ELSE Round2(10000 * (range_width - deviation), range_width, up)

InRangeScore_SignedDeviation(v, min_val, max_val, ideal, up) ==
    LET range_width == max_val - min_val
        deviation == v - ideal
    IN  IF range_width = 0
        THEN (IF v = ideal THEN 10000 ELSE 5000)
        ELSE IF range_width - 2 * deviation <= 0 THEN 0
        ELSE Round2(10000 * (range_width - 2 * deviation), range_width, up)

InRangeScore_FromMidpoint(v, min_val, max_val, ideal, up) ==
    LET range_width == max_val - min_val
        twice_deviation == Abs(2 * v - (min_val + max_val))
    IN  IF range_width = 0
        THEN (IF v = ideal THEN 10000 ELSE 5000)
        ELSE IF range_width - twice_deviation <= 0 THEN 0
        ELSE Round2(10000 * (range_width - twice_deviation), range_width, up)

InRangeScore(v, min_val, max_val, ideal, up) ==
    LET range_width == max_val - min_val
        deviation == Deviation(v, ideal)
    IN  IF range_width = 0
        THEN (IF v = ideal THEN 10000 ELSE 5000)
        \* max(0, 100 * (1 - deviation / (range_width / 2)))
        ELSE IF range_width - 2 * deviation <= 0 THEN 0
        ELSE Round2(10000 * (range_width - 2 * deviation), range_width, up)

\* lines 61-79: the score before the rating, in hundredths
MetricScore(v, min_val, max_val, ideal, ru) ==
    LET up == ru[IF v > ideal THEN "above" ELSE "below"]
    IN  IF min_val <= v /\ v <= max_val
        THEN InRangeScore(v, min_val, max_val, ideal, up)
        ELSE IF v < min_val
             THEN (IF min_val # 0 THEN PctClamped(v, min_val, up) ELSE 0)
             ELSE (IF v # 0 THEN PctClamped(max_val, v, up) ELSE 0)

\* lines 85-94: "youxiu" 优秀, "lianghao" 良好, "yiban" 一般, "jiaocha" 较差,
\* "cha" 差
Rating(score) ==
    IF score >= 8000 THEN "youxiu"
    ELSE IF score >= 6000 THEN "lianghao"
    ELSE IF score >= 4000 THEN "yiban"
    ELSE IF score >= 2000 THEN "jiaocha"
    ELSE "cha"

\* value is None or Num(v); "wushuju" is 无数据; industry_range is the pair
\* the source formats as "min-max"; the inputs carry two decimals, so that
\* round(value, 2) returns them as they are
calculate_metric_score(value, min_val, max_val, ideal, weight, ru) ==
    IF value = None
    THEN [score |-> 0, weighted_score |-> 0, rating |-> "wushuju",
          value |-> None, industry_range |-> <<min_val, max_val>>,
          industry_ideal |-> ideal]
    ELSE LET score == MetricScore(value.v, min_val, max_val, ideal, ru)
         IN  [score |-> score,
              weighted_score |-> Round2(score * weight, 100, ru["derived"]),
              rating |-> Rating(score),
              value |-> value,
              industry_range |-> <<min_val, max_val>>,
              industry_ideal |-> ideal]

(***************************************************************************)
(* industry_benchmarks.py                                                  *)
(***************************************************************************)
\* INDUSTRY_BENCHMARKS.keys(), in declaration order
IndustryIds ==
    <<"technology", "manufacturing", "construction", "retail",
      "finance", "real_estate", "consumer", "energy",
      "utilities", "telecom", "transportation", "materials">>

\* one benchmark of the table: min, max and ideal in hundredths, weight in
\* hundredths
B(name, min_val, max_val, ideal, weight) ==
    [name |-> name, min |-> min_val, max |-> max_val, ideal |-> ideal,
     weight |-> weight]

\* INDUSTRY_BENCHMARKS: per industry the name, the keyword, stock_patterns
\* and stock_examples lists (strings as sequences of code points; an
\* industry without stock_patterns has has_patterns FALSE), the metrics dict
\* as the sequence of its items and the special_rules dict as a record; the
\* description, a display text no code reads, is left out
INDUSTRY_BENCHMARKS ==
    [technology |->
       \* name: 高科技
       [name |-> <<39640, 31185, 25216>>,
        name_en |-> "Technology",
        \* keywords: 软件 半导体 芯片 人工智能 云计算 互联网 电子 计算机 通信设备
        keywords |-> <<<<36719, 20214>>,
                       <<21322, 23548, 20307>>,
                       <<33455, 29255>>,
                       <<20154, 24037, 26234, 33021>>,
                       <<20113, 35745, 31639>>,
                       <<20114, 32852, 32593>>,
                       <<30005, 23376>>,
                       <<35745, 31639, 26426>>,
                       <<36890, 20449, 35774, 22791>>>>,
        has_patterns |-> TRUE,
        \* stock_patterns: 688
        stock_patterns |-> <<<<54, 56, 56>>>>,
        \* stock_examples: 688981 688256 688008 300750 002415
        stock_examples |-> <<<<54, 56, 56, 57, 56, 49>>,
                             <<54, 56, 56, 50, 53, 54>>,
                             <<54, 56, 56, 48, 48, 56>>,
                             <<51, 48, 48, 55, 53, 48>>,
                             <<48, 48, 50, 52, 49, 53>>>>,
        metrics |-> <<B("gross_margin", 4000, 7000, 5500, 15),
                      B("net_margin", 1000, 3500, 2200, 15),
                      B("roe", 1000, 3000, 1800, 25),
                      B("roa", 500, 1800, 1200, 10),
                      B("debt_ratio", 1500, 5000, 3000, 10),
                      B("asset_turnover", 40, 120, 80, 10),
                      B("rd_ratio", 300, 2500, 1200, 15)>>,
        special_rules |-> [high_rd_bonus |-> TRUE,
                          growth_critical |-> TRUE]],
       manufacturing |->
       \* name: 制造业
       [name |-> <<21046, 36896, 19994>>,
        name_en |-> "Manufacturing",
        \* keywords: 制造 机械 设备 汽车 家电 零部件 装备 工业
        keywords |-> <<<<21046, 36896>>,
                       <<26426, 26800>>,
                       <<35774, 22791>>,
                       <<27773, 36710>>,
                       <<23478, 30005>>,
                       <<38646, 37096, 20214>>,
                       <<35013, 22791>>,
                       <<24037, 19994>>>>,
        has_patterns |-> FALSE,
        \* stock_patterns: 
        stock_patterns |-> <<>>,
        \* stock_examples: 600031 000651 000333 601012 002594
        stock_examples |-> <<<<54, 48, 48, 48, 51, 49>>,
                             <<48, 48, 48, 54, 53, 49>>,
                             <<48, 48, 48, 51, 51, 51>>,
                             <<54, 48, 49, 48, 49, 50>>,
                             <<48, 48, 50, 53, 57, 52>>>>,
        metrics |-> <<B("gross_margin", 1200, 3500, 2200, 20),
                      B("net_margin", 400, 1500, 800, 20),
                      B("roe", 600, 2000, 1200, 25),
                      B("roa", 300, 1200, 700, 10),
                      B("debt_ratio", 3000, 6500, 4500, 15),
                      B("asset_turnover", 50, 180, 100, 10)>>,
        special_rules |-> [capacity_utilization |-> TRUE,
                          inventory_critical |-> TRUE]],
       construction |->
       \* name: 建筑
       [name |-> <<24314, 31569>>,
        name_en |-> "Construction",
        \* keywords: 建筑 工程 基建 房建 装修 园林 装饰 施工
        keywords |-> <<<<24314, 31569>>,
                       <<24037, 31243>>,
                       <<22522, 24314>>,
                       <<25151, 24314>>,
                       <<35013, 20462>>,
                       <<22253, 26519>>,
                       <<35013, 39280>>,
                       <<26045, 24037>>>>,
        has_patterns |-> FALSE,
        \* stock_patterns: 
        stock_patterns |-> <<>>,
        \* stock_examples: 601668 601390 601800 601669 601186
        stock_examples |-> <<<<54, 48, 49, 54, 54, 56>>,
                             <<54, 48, 49, 51, 57, 48>>,
                             <<54, 48, 49, 56, 48, 48>>,
                             <<54, 48, 49, 54, 54, 57>>,
                             <<54, 48, 49, 49, 56, 54>>>>,
        metrics |-> <<B("gross_margin", 600, 1500, 1000, 15),
                      B("net_margin", 150, 500, 300, 20),
                      B("roe", 600, 1800, 1200, 25),
                      B("roa", 100, 500, 250, 10),
                      B("debt_ratio", 6500, 8500, 7500, 10),
                      B("asset_turnover", 25, 70, 45, 10),
                      B("ocf_to_np", 50, 150, 90, 10)>>,
        special_rules |-> [debt_tolerance |-> "high",
                          cashflow_critical |-> TRUE,
                          order_book_important |-> TRUE]],
       retail |->
       \* name: 零售
       [name |-> <<38646, 21806>>,
        name_en |-> "Retail",
        \* keywords: 零售 商贸 百货 超市 电商 贸易 销售 连锁
        keywords |-> <<<<38646, 21806>>,
                       <<21830, 36152>>,
                       <<30334, 36135>>,
                       <<36229, 24066>>,
                       <<30005, 21830>>,
                       <<36152, 26131>>,
                       <<38144, 21806>>,
                       <<36830, 38145>>>>,
        has_patterns |-> FALSE,
        \* stock_patterns: 
        stock_patterns |-> <<>>,
        \* stock_examples: 601933 002024 002714 600694 601888
        stock_examples |-> <<<<54, 48, 49, 57, 51, 51>>,
                             <<48, 48, 50, 48, 50, 52>>,
                             <<48, 48, 50, 55, 49, 52>>,
                             <<54, 48, 48, 54, 57, 52>>,
                             <<54, 48, 49, 56, 56, 56>>>>,
        metrics |-> <<B("gross_margin", 1200, 4000, 2500, 15),
                      B("net_margin", 200, 1000, 500, 20),
                      B("roe", 800, 2500, 1500, 25),
                      B("roa", 400, 1500, 800, 10),
                      B("debt_ratio", 3500, 7000, 5000, 10),
                      B("asset_turnover", 120, 400, 250, 20)>>,
        special_rules |-> [high_turnover |-> TRUE,
                          same_store_growth |-> TRUE]],
       finance |->
       \* name: 金融
       [name |-> <<37329, 34701>>,
        name_en |-> "Finance",
        \* keywords: 银行 证券 保险 信托 租赁 金融 投资
        keywords |-> <<<<38134, 34892>>,
                       <<35777, 21048>>,
                       <<20445, 38505>>,
                       <<20449, 25176>>,
                       <<31199, 36161>>,
                       <<37329, 34701>>,
                       <<25237, 36164>>>>,
        has_patterns |-> TRUE,
        \* stock_patterns: 601 60 002
        stock_patterns |-> <<<<54, 48, 49>>, <<54, 48>>, <<48, 48, 50>>>>,
        \* stock_examples: 601398 601318 601166 000001 600030
        stock_examples |-> <<<<54, 48, 49, 51, 57, 56>>,
                             <<54, 48, 49, 51, 49, 56>>,
                             <<54, 48, 49, 49, 54, 54>>,
                             <<48, 48, 48, 48, 48, 49>>,
                             <<54, 48, 48, 48, 51, 48>>>>,
        metrics |-> <<B("roe", 800, 2200, 1400, 35),
                      B("roa", 50, 150, 100, 20),
                      B("debt_ratio", 8500, 9600, 9100, 5),
                      B("net_margin", 2000, 5000, 3500, 25),
                      B("cost_to_income", 2500, 4500, 3200, 15)>>,
        special_rules |-> [use_custom_metrics |-> TRUE,
                          capital_adequacy |-> TRUE,
                          npl_ratio |-> TRUE]],
       real_estate |->
       \* name: 房地产
       [name |-> <<25151, 22320, 20135>>,
        name_en |-> "Real Estate",
        \* keywords: 房地产 地产 物业 园区 置业 开发
        keywords |-> <<<<25151, 22320, 20135>>,
                       <<22320, 20135>>,
                       <<29289, 19994>>,
                       <<22253, 21306>>,
                       <<32622, 19994>>,
                       <<24320, 21457>>>>,
        has_patterns |-> FALSE,
        \* stock_patterns: 
        stock_patterns |-> <<>>,
        \* stock_examples: 000002 600048 001979 600383 000656
        stock_examples |-> <<<<48, 48, 48, 48, 48, 50>>,
                             <<54, 48, 48, 48, 52, 56>>,
                             <<48, 48, 49, 57, 55, 57>>,
                             <<54, 48, 48, 51, 56, 51>>,
                             <<48, 48, 48, 54, 53, 54>>>>,
        metrics |-> <<B("gross_margin", 1800, 4500, 3000, 15),
                      B("net_margin", 600, 1800, 1100, 20),
                      B("roe", 600, 2200, 1300, 25),
                      B("roa", 200, 800, 400, 10),
                      B("debt_ratio", 5500, 8800, 7200, 15),
                      B("asset_turnover", 15, 50, 30, 10),
                      B("ocf_to_np", 30, 150, 80, 5)>>,
        special_rules |-> [debt_tolerance |-> "high",
                          cashflow_critical |-> TRUE,
                          land_reserve |-> TRUE]],
       consumer |->
       \* name: 消费品
       [name |-> <<28040, 36153, 21697>>,
        name_en |-> "Consumer Goods",
        \* keywords: 食品 饮料 白酒 医药 纺织 服装 日化 化妆品 调味品
        keywords |-> <<<<39135, 21697>>,
                       <<39278, 26009>>,
                       <<30333, 37202>>,
                       <<21307, 33647>>,
                       <<32442, 32455>>,
                       <<26381, 35013>>,
                       <<26085, 21270>>,
                       <<21270, 22918, 21697>>,
                       <<35843, 21619, 21697>>>>,
        has_patterns |-> FALSE,
        \* stock_patterns: 
        stock_patterns |-> <<>>,
        \* stock_examples: 600519 603288 000858 600887 002304
        stock_examples |-> <<<<54, 48, 48, 53, 49, 57>>,
                             <<54, 48, 51, 50, 56, 56>>,
                             <<48, 48, 48, 56, 53, 56>>,
                             <<54, 48, 48, 56, 56, 55>>,
                             <<48, 48, 50, 51, 48, 52>>>>,
        metrics |-> <<B("gross_margin", 2500, 7000, 5000, 20),
                      B("net_margin", 800, 3000, 1800, 20),
                      B("roe", 1200, 3500, 2200, 30),
                      B("roa", 600, 2000, 1200, 10),
                      B("debt_ratio", 1500, 5000, 2800, 10),
                      B("asset_turnover", 40, 120, 75, 10)>>,
        special_rules |-> [brand_value |-> TRUE,
                          channel_coverage |-> TRUE,
                          repetition_rate |-> TRUE]],
       energy |->
       \* name: 能源
       [name |-> <<33021, 28304>>,
        name_en |-> "Energy",
        \* keywords: 石油 天然气 煤炭 电力 新能源 光伏 风电 核电 采掘
        keywords |-> <<<<30707, 27833>>,
                       <<22825, 28982, 27668>>,
                       <<29028, 28845>>,
                       <<30005, 21147>>,
                       <<26032, 33021, 28304>>,
                       <<20809, 20239>>,
                       <<39118, 30005>>,
                       <<26680, 30005>>,
                       <<37319, 25496>>>>,
        has_patterns |-> FALSE,
        \* stock_patterns: 
        stock_patterns |-> <<>>,
        \* stock_examples: 601857 600900 601899 600021 000400
        stock_examples |-> <<<<54, 48, 49, 56, 53, 55>>,
                             <<54, 48, 48, 57, 48, 48>>,
                             <<54, 48, 49, 56, 57, 57>>,
                             <<54, 48, 48, 48, 50, 49>>,
                             <<48, 48, 48, 52, 48, 48>>>>,
        metrics |-> <<B("gross_margin", 1200, 4000, 2500, 15),
                      B("net_margin", 400, 1800, 1000, 20),
                      B("roe", 500, 1600, 1000, 25),
                      B("roa", 200, 1000, 500, 10),
                      B("debt_ratio", 3500, 7500, 5500, 15),
                      B("asset_turnover", 25, 90, 55, 15)>>,
        special_rules |-> [price_sensitive |-> TRUE,
                          resource_reserves |-> TRUE,
                          policy_impact |-> TRUE]],
       utilities |->
       \* name: 公用事业
       [name |-> <<20844, 29992, 20107, 19994>>,
        name_en |-> "Utilities",
        \* keywords: 水务 燃气 供热 环保 污水 固废 环境
        keywords |-> <<<<27700, 21153>>,
                       <<29123, 27668>>,
                       <<20379, 28909>>,
                       <<29615, 20445>>,
                       <<27745, 27700>>,
                       <<22266, 24223>>,
                       <<29615, 22659>>>>,
        has_patterns |-> FALSE,
        \* stock_patterns: 
        stock_patterns |-> <<>>,
        \* stock_examples: 600011 600323 000685 600874 601199
        stock_examples |-> <<<<54, 48, 48, 48, 49, 49>>,
                             <<54, 48, 48, 51, 50, 51>>,
                             <<48, 48, 48, 54, 56, 53>>,
                             <<54, 48, 48, 56, 55, 52>>,
                             <<54, 48, 49, 49, 57, 57>>>>,
        metrics |-> <<B("gross_margin", 2000, 5000, 3500, 15),
                      B("net_margin", 600, 2000, 1300, 20),
                      B("roe", 500, 1400, 900, 30),
                      B("roa", 200, 800, 400, 10),
                      B("debt_ratio", 4500, 8000, 6200, 15),
                      B("asset_turnover", 20, 70, 40, 10)>>,
        special_rules |-> [stable_cashflow |-> TRUE,
                          franchise_important |-> TRUE,
                          regulated |-> TRUE]],
       telecom |->
       \* name: 通信
       [name |-> <<36890, 20449>>,
        name_en |-> "Telecommunications",
        \* keywords: 电信 移动 联通 通信 5G 基站 光纤
        keywords |-> <<<<30005, 20449>>,
                       <<31227, 21160>>,
                       <<32852, 36890>>,
                       <<36890, 20449>>,
                       <<53, 71>>,
                       <<22522, 31449>>,
                       <<20809, 32420>>>>,
        has_patterns |-> FALSE,
        \* stock_patterns: 
        stock_patterns |-> <<>>,
        \* stock_examples: 600941 600050 000063 601728 002468
        stock_examples |-> <<<<54, 48, 48, 57, 52, 49>>,
                             <<54, 48, 48, 48, 53, 48>>,
                             <<48, 48, 48, 48, 54, 51>>,
                             <<54, 48, 49, 55, 50, 56>>,
                             <<48, 48, 50, 52, 54, 56>>>>,
        metrics |-> <<B("gross_margin", 2500, 6000, 4200, 15),
                      B("net_margin", 800, 2200, 1500, 20),
                      B("roe", 600, 1800, 1200, 30),
                      B("roa", 300, 1000, 600, 10),
                      B("debt_ratio", 3000, 6500, 4500, 15),
                      B("asset_turnover", 35, 100, 60, 10)>>,
        special_rules |-> [high_capex |-> TRUE,
                          subscriber_base |-> TRUE,
                          arpu_important |-> TRUE]],
       transportation |->
       \* name: 交通运输
       [name |-> <<20132, 36890, 36816, 36755>>,
        name_en |-> "Transportation",
        \* keywords: 航空 机场 港口 航运 物流 快递 铁路 交通
        keywords |-> <<<<33322, 31354>>,
                       <<26426, 22330>>,
                       <<28207, 21475>>,
                       <<33322, 36816>>,
                       <<29289, 27969>>,
                       <<24555, 36882>>,
                       <<38081, 36335>>,
                       <<20132, 36890>>>>,
        has_patterns |-> FALSE,
        \* stock_patterns: 
        stock_patterns |-> <<>>,
        \* stock_examples: 601111 002352 600029 601919 601006
        stock_examples |-> <<<<54, 48, 49, 49, 49, 49>>,
                             <<48, 48, 50, 51, 53, 50>>,
                             <<54, 48, 48, 48, 50, 57>>,
                             <<54, 48, 49, 57, 49, 57>>,
                             <<54, 48, 49, 48, 48, 54>>>>,
        metrics |-> <<B("gross_margin", 1200, 4000, 2500, 15),
                      B("net_margin", 400, 1600, 1000, 20),
                      B("roe", 500, 1600, 1000, 25),
                      B("roa", 200, 1000, 500, 10),
                      B("debt_ratio", 3500, 7500, 5500, 15),
                      B("asset_turnover", 25, 90, 55, 15)>>,
        special_rules |-> [heavy_assets |-> TRUE,
                          fuel_cost_sensitive |-> TRUE,
                          capacity_utilization |-> TRUE]],
       materials |->
       \* name: 原材料
       [name |-> <<21407, 26448, 26009>>,
        name_en |-> "Materials",
        \* keywords: 钢铁 有色金属 化工 建材 造纸 玻璃 水泥 金属
        keywords |-> <<<<38050, 38081>>,
                       <<26377, 33394, 37329, 23646>>,
                       <<21270, 24037>>,
                       <<24314, 26448>>,
                       <<36896, 32440>>,
                       <<29627, 29827>>,
                       <<27700, 27877>>,
                       <<37329, 23646>>>>,
        has_patterns |-> FALSE,
        \* stock_patterns: 
        stock_patterns |-> <<>>,
        \* stock_examples: 600019 601600 600585 000895 002601
        stock_examples |-> <<<<54, 48, 48, 48, 49, 57>>,
                             <<54, 48, 49, 54, 48, 48>>,
                             <<54, 48, 48, 53, 56, 53>>,
                             <<48, 48, 48, 56, 57, 53>>,
                             <<48, 48, 50, 54, 48, 49>>>>,
        metrics |-> <<B("gross_margin", 800, 3000, 1700, 15),
                      B("net_margin", 200, 1200, 600, 20),
                      B("roe", 400, 1800, 1000, 25),
                      B("roa", 200, 1000, 500, 10),
                      B("debt_ratio", 3500, 7500, 5500, 15),
                      B("asset_turnover", 40, 150, 85, 15)>>,
        special_rules |-> [cyclical |-> TRUE,
                          price_volatility |-> TRUE,
                          inventory_important |-> TRUE]]]

\* SW_INDUSTRY_MAPPING: the items of the dict, key (code points) and industry
SW_INDUSTRY_MAPPING ==
    << <<<<38134, 34892>>, "finance">>,  \* 银行
      <<<<38750, 38134, 37329, 34701>>, "finance">>,  \* 非银金融
      <<<<25151, 22320, 20135>>, "real_estate">>,  \* 房地产
      <<<<24314, 31569, 35013, 39280>>, "construction">>,  \* 建筑装饰
      <<<<24314, 31569, 26448, 26009>>, "materials">>,  \* 建筑材料
      <<<<38050, 38081>>, "materials">>,  \* 钢铁
      <<<<26377, 33394, 37329, 23646>>, "materials">>,  \* 有色金属
      <<<<21270, 24037>>, "materials">>,  \* 化工
      <<<<22522, 30784, 21270, 24037>>, "materials">>,  \* 基础化工
      <<<<30707, 27833, 30707, 21270>>, "energy">>,  \* 石油石化
      <<<<29028, 28845>>, "materials">>,  \* 煤炭
      <<<<30005, 21147, 35774, 22791>>, "energy">>,  \* 电力设备
      <<<<20844, 29992, 20107, 19994>>, "utilities">>,  \* 公用事业
      <<<<20132, 36890, 36816, 36755>>, "transportation">>,  \* 交通运输
      <<<<27773, 36710>>, "manufacturing">>,  \* 汽车
      <<<<26426, 26800, 35774, 22791>>, "manufacturing">>,  \* 机械设备
      <<<<22269, 38450, 20891, 24037>>, "manufacturing">>,  \* 国防军工
      <<<<30005, 27668, 35774, 22791>>, "manufacturing">>,  \* 电气设备
      <<<<30005, 23376>>, "technology">>,  \* 电子
      <<<<35745, 31639, 26426>>, "technology">>,  \* 计算机
      <<<<36890, 20449>>, "telecom">>,  \* 通信
      <<<<20256, 23186>>, "technology">>,  \* 传媒
      <<<<39135, 21697, 39278, 26009>>, "consumer">>,  \* 食品饮料
      <<<<23478, 29992, 30005, 22120>>, "consumer">>,  \* 家用电器
      <<<<32442, 32455, 26381, 39280>>, "consumer">>,  \* 纺织服饰
      <<<<36731, 24037, 21046, 36896>>, "consumer">>,  \* 轻工制造
      <<<<21307, 33647, 29983, 29289>>, "consumer">>,  \* 医药生物
      <<<<32654, 23481, 25252, 29702>>, "consumer">>,  \* 美容护理
      <<<<21830, 36152, 38646, 21806>>, "retail">>,  \* 商贸零售
      <<<<31038, 20250, 26381, 21153>>, "consumer">>,  \* 社会服务
      <<<<20892, 26519, 29287, 28180>>, "consumer">>,  \* 农林牧渔
      <<<<32508, 21512>>, "manufacturing">> >>  \* 综合

\* get_industry_info: benchmarks.get(id, the manufacturing entry)
get_industry_info(industry_id) ==
    IF industry_id \in DOMAIN benchmarks
    THEN benchmarks[industry_id]
    ELSE benchmarks["manufacturing"]

\* a lookup that answers "unknown" for a tag that is no key of the table
get_industry_by_sw_Unknown(sw_industry) ==
    IF \E i \in 1 .. Len(sw_mapping) :
          sw_mapping[i][1] = sw_industry
    THEN sw_mapping[CHOOSE i \in 1 .. Len(sw_mapping) :
                                sw_mapping[i][1] = sw_industry][2]
    ELSE "unknown"

\* get_industry_by_sw: SW_INDUSTRY_MAPPING.get(sw_industry, "manufacturing")
get_industry_by_sw(sw_industry) ==
    IF \E i \in 1 .. Len(sw_mapping) :
          sw_mapping[i][1] = sw_industry
    THEN sw_mapping[CHOOSE i \in 1 .. Len(sw_mapping) :
                                sw_mapping[i][1] = sw_industry][2]
    ELSE "manufacturing"

(***************************************************************************)
(* Python strings: a str is Str(s), s the sequence of its code points      *)
(***************************************************************************)
Str(s) == [t |-> "str", s |-> s]

\* the characters str.strip() removes
Whitespace ==
    (9 .. 13) \cup (28 .. 32) \cup {133, 160, 5760} \cup (8192 .. 8202)
        \cup {8232, 8233, 8239, 8287, 12288}

SetMin(S) == CHOOSE x \in S : \A y \in S : x <= y
SetMax(S) == CHOOSE x \in S : \A y \in S : x >= y

\* s.strip()
Strip(s) ==
    LET kept == {i \in 1 .. Len(s) : s[i] \notin Whitespace}
    IN  IF kept = {} THEN <<>> ELSE SubSeq(s, SetMin(kept), SetMax(kept))

\* s.zfill(width): zeros on the left, after a leading sign
ZFill(s, width) ==
    LET zeros == [i \in 1 .. (width - Len(s)) |-> 48]
    IN  IF Len(s) >= width THEN s
        ELSE IF s # <<>> /\ s[1] \in {43, 45}
             THEN <<s[1]>> \o zeros \o Tail(s)
             ELSE zeros \o s

\* s.startswith(prefix)
StartsWith(s, prefix) ==
    Len(prefix) <= Len(s) /\ SubSeq(s, 1, Len(prefix)) = prefix

\* sub in s
Contains(s, sub) ==
    \E i \in 0 .. (Len(s) - Len(sub)) : SubSeq(s, i + 1, i + Len(sub)) = sub

\* s.lower(): the strings of the model hold ASCII letters, digits and CJK
\* characters, of which only A-Z have a lower case
Lower(s) == [i \in 1 .. Len(s) |-> IF s[i] \in 65 .. 90 THEN s[i] + 32 ELSE s[i]]

(***************************************************************************)
(* industry_classifier.py: IndustryClassifier                              *)
(***************************************************************************)
\* Str of the first industry, in table order, among ids; None when none is
FirstIndustry(ids) ==
    IF \E i \in 1 .. Len(IndustryIds) : IndustryIds[i] \in ids
    THEN Str(IndustryIds[SetMin({i \in 1 .. Len(IndustryIds) :
                                    IndustryIds[i] \in ids})])
    ELSE None

\* classify_by_stock_code that scans the pattern lists before the example
\* lists
classify_by_stock_code_PatternsFirst(stock_code) ==
    LET code == ZFill(Strip(stock_code), 6)
        in_examples ==
            {id \in Range(IndustryIds) :
                code \in Range(benchmarks[id].stock_examples)}
        matches_pattern ==
            {id \in Range(IndustryIds) :
                /\ benchmarks[id].has_patterns
                /\ \E pattern \in
                       Range(benchmarks[id].stock_patterns) :
                      StartsWith(code, pattern)}
    IN  IF StartsWith(code, <<54, 56, 56>>) THEN Str("technology")
        ELSE IF StartsWith(code, <<51, 48, 48>>) THEN Str("technology")
        ELSE IF StartsWith(code, <<56>>) \/ StartsWith(code, <<52>>)
             THEN Str("manufacturing")
        ELSE IF matches_pattern # {} THEN FirstIndustry(matches_pattern)
        ELSE FirstIndustry(in_examples)

\* classify_by_stock_code: Str(industry id) or None; stock_code is the
\* sequence of code points of the str
classify_by_stock_code(stock_code) ==
    LET code == ZFill(Strip(stock_code), 6)
        in_examples ==
            {id \in Range(IndustryIds) :
                code \in Range(benchmarks[id].stock_examples)}
        matches_pattern ==
            {id \in Range(IndustryIds) :
                /\ benchmarks[id].has_patterns
                /\ \E pattern \in
                       Range(benchmarks[id].stock_patterns) :
                      StartsWith(code, pattern)}
    IN  IF StartsWith(code, <<54, 56, 56>>) THEN Str("technology")     \* 688
        ELSE IF StartsWith(code, <<51, 48, 48>>) THEN Str("technology") \* 300
        ELSE IF StartsWith(code, <<56>>) \/ StartsWith(code, <<52>>)   \* 8, 4
             THEN Str("manufacturing")
        ELSE IF in_examples # {} THEN FirstIndustry(in_examples)
        ELSE FirstIndustry(matches_pattern)

\* the keyword score without the bonus for a name that begins with a keyword
KeywordScore_NoPrefixBonus(id, name) ==
    Cardinality({i \in 1 .. Len(benchmarks[id].keywords) :
        Contains(name, Lower(benchmarks[id].keywords[i]))})

\* lines 79-89: the keyword score of one industry for the lower-cased name
KeywordScore(id, name) ==
    LET keywords == benchmarks[id].keywords
    IN  Cardinality({i \in 1 .. Len(keywords) :
                        Contains(name, Lower(keywords[i]))})
        + 2 * Cardinality({i \in 1 .. Len(keywords) :
                        \/ Lower(keywords[i]) = name
                        \/ StartsWith(name, Lower(keywords[i]))})

\* classify_by_name: the dict industry -> score / len(keywords), as the
\* sequence of its items <<industry, score, len(keywords)>> in insertion
\* order
classify_by_name(company_name) ==
    LET name == Lower(company_name)
        hit == {i \in 1 .. Len(IndustryIds) :
                   KeywordScore(IndustryIds[i], name) > 0}
        Nth(S, n) == CHOOSE x \in S : Cardinality({y \in S : y < x}) = n - 1
    IN  [n \in 1 .. Cardinality(hit) |->
            LET id == IndustryIds[Nth(hit, n)]
            IN  <<id, KeywordScore(id, name),
                  Len(benchmarks[id].keywords)>>]

\* max() that returns the last of the items of highest score
MaxByScore_LastWins(items) ==
    items[SetMax({i \in 1 .. Len(items) :
                     \A j \in 1 .. Len(items) :
                        items[j][2] * items[i][3] <= items[i][2] * items[j][3]})][1]

\* max(name_scores.items(), key=lambda x: x[1])[0]: the first item whose
\* score no other item exceeds
MaxByScore(items) ==
    items[SetMin({i \in 1 .. Len(items) :
                     \A j \in 1 .. Len(items) :
                        items[j][2] * items[i][3] <= items[i][2] * items[j][3]})][1]

\* a str or None is truthy when it is a non-empty str
Truthy(x) == x # None /\ x.s # <<>>

\* classify with the name step before the code step
classify_NameBeforeCode(stock_code, company_name, sw_industry) ==
    LET by_sw == IF Truthy(sw_industry)
                 THEN get_industry_by_sw(sw_industry.s)
                 ELSE "manufacturing"
        by_code == classify_by_stock_code(stock_code.s)
        name_scores == IF Truthy(company_name)
                       THEN classify_by_name(company_name.s)
                       ELSE <<>>
    IN  IF Truthy(sw_industry) /\ by_sw # "manufacturing" THEN by_sw
        ELSE IF Truthy(company_name) /\ name_scores # <<>>
             THEN MaxByScore(name_scores)
        ELSE IF by_code # None THEN by_code.s
        ELSE "manufacturing"

\* classify: stock_code a Str, company_name and sw_industry a Str or None;
\* returns the industry id
classify(stock_code, company_name, sw_industry) ==
    LET by_sw == IF Truthy(sw_industry)
                 THEN get_industry_by_sw(sw_industry.s)
                 ELSE "manufacturing"
        by_code == classify_by_stock_code(stock_code.s)
        name_scores == IF Truthy(company_name)
                       THEN classify_by_name(company_name.s)
                       ELSE <<>>
    IN  IF Truthy(sw_industry) /\ by_sw # "manufacturing" THEN by_sw
        ELSE IF by_code # None THEN by_code.s
        ELSE IF Truthy(company_name) /\ name_scores # <<>>
             THEN MaxByScore(name_scores)
        ELSE "manufacturing"

\* sorted(name_scores.items(), key=lambda x: -x[1]): by falling score, items
\* of equal score in their order in the dict
SortedByScore(items) ==
    LET Before(j, i) ==
            \/ items[j][2] * items[i][3] > items[i][2] * items[j][3]
            \/ /\ items[j][2] * items[i][3] = items[i][2] * items[j][3]
               /\ j < i
        Rank(i) == 1 + Cardinality({j \in 1 .. Len(items) : Before(j, i)})
    IN  [n \in 1 .. Len(items) |->
            items[CHOOSE i \in 1 .. Len(items) : Rank(i) = n]]

\* one entry (industry id, confidence, source) of get_industry_matches; the
\* confidence is the fraction num / den, the source its label and the text
\* formatted into it
Match(industry_id, num, den, label, text) ==
    [industry |-> industry_id, confidence |-> [num |-> num, den |-> den],
     source |-> [label |-> label, text |-> text]]

\* get_industry_matches whose list outlives the call, each call appending
\* to what the earlier calls returned
get_industry_matches_Accumulating(stock_code, company_name, sw_industry) ==
    LET by_code == classify_by_stock_code(stock_code.s)
        name_scores == IF Truthy(company_name)
                       THEN SortedByScore(classify_by_name(company_name.s))
                       ELSE <<>>
    IN  (IF matches = NoCall THEN <<>> ELSE matches.items)
        \o (IF Truthy(sw_industry)
            THEN <<Match(get_industry_by_sw(sw_industry.s), 1, 1,
                         "shenwan hangye", sw_industry.s)>>
            ELSE <<>>)
        \o (IF by_code # None
            THEN <<Match(by_code.s,
                         IF StartsWith(stock_code.s, <<54, 56, 56>>)
                         THEN 4 ELSE 3,
                         5, "gupiao daima moshi", <<>>)>>
            ELSE <<>>)
        \o [n \in 1 .. Len(name_scores) |->
               Match(name_scores[n][1], name_scores[n][2],
                     2 * name_scores[n][3],
                     "gongsi mingcheng guanjianci", company_name.s)]

\* get_industry_matches: the list of (industry id, confidence, source),
\* the sector tag first (1.0), then the code (0.8 for a code that starts
\* with 688, else 0.6), then the name matches (score * 0.5) by falling score
get_industry_matches(stock_code, company_name, sw_industry) ==
    LET by_code == classify_by_stock_code(stock_code.s)
        name_scores == IF Truthy(company_name)
                       THEN SortedByScore(classify_by_name(company_name.s))
                       ELSE <<>>
    IN  (IF Truthy(sw_industry)
         THEN <<Match(get_industry_by_sw(sw_industry.s), 1, 1,
                      "shenwan hangye", sw_industry.s)>>
         ELSE <<>>)
        \o (IF by_code # None
            THEN <<Match(by_code.s,
                         IF StartsWith(stock_code.s, <<54, 56, 56>>)   \* 688
                         THEN 4 ELSE 3,
                         5, "gupiao daima moshi", <<>>)>>
            ELSE <<>>)
        \o [n \in 1 .. Len(name_scores) |->
               Match(name_scores[n][1], name_scores[n][2],
                     2 * name_scores[n][3],
                     "gongsi mingcheng guanjianci", company_name.s)]

(***************************************************************************)
(* industry_scorer.py: IndustryScorer.calculate_industry_adjusted_score    *)
(***************************************************************************)
\* a dict value that is neither None nor a number (float() raises on it)
Text == [t |-> "text"]

\* safe_float that reads what float() rejects as 0
safe_float_TextAsZero(value, default) ==
    IF value = None THEN default
    ELSE IF value = Text THEN [t |-> "num", v |-> 0]
    ELSE value

\* safe_float(value, default): default for None and for what float() rejects
safe_float(value, default) ==
    IF value = None \/ value = Text THEN default ELSE value

\* metrics.get(key, default)
GetOr(m, key, default) == IF key \in DOMAIN m THEN m[key] ELSE default

\* metrics.get(key): the value under key, None when the key is absent
Get(m, key) == GetOr(m, key, None)

\* lines 144-154: aliases.get(metric_name, [metric_name]); the Chinese keys
\* are "maolilv" 毛利率, "jinglilv" 净利率, "zichanfuzhailv" 资产负债率,
\* "zichanzhouzhuanlv" 资产周转率, "xianjinliu_jinglirun" 现金流/净利润,
\* "yanfafeiyonglv" 研发费用率
Aliases(metric_name) ==
    CASE metric_name = "gross_margin" -> <<"gross_margin", "maolilv">>
      [] metric_name = "net_margin" ->
            <<"net_profit_margin", "net_margin", "jinglilv">>
      [] metric_name = "roe" -> <<"roe">>
      [] metric_name = "roa" -> <<"roa">>
      [] metric_name = "debt_ratio" -> <<"debt_ratio", "zichanfuzhailv">>
      [] metric_name = "asset_turnover" ->
            <<"asset_turnover", "zichanzhouzhuanlv">>
      [] metric_name = "ocf_to_np" -> <<"ocf_to_np", "xianjinliu_jinglirun">>
      [] metric_name = "rd_ratio" -> <<"rd_ratio", "yanfafeiyonglv">>
      [] OTHER -> <<metric_name>>

\* lines 141-159: the value scored for metric_name, None when none resolves
ResolveValue(m, metric_name) ==
    LET aliases == Aliases(metric_name)
        found == {i \in 1 .. Len(aliases) :
                     aliases[i] \in DOMAIN m /\ m[aliases[i]] # None}
        value == IF Get(m, metric_name) # None THEN Get(m, metric_name)
                 ELSE IF found # {} THEN m[aliases[SetMin(found)]]
                 ELSE None
    IN  safe_float(value, None)

\* lines 174-185: metric_names_cn; "maolilv" 毛利率, "jinglilv" 净利率,
\* "jingzichanshouyilv_roe" 净资产收益率(ROE), "zongzichanshouyilv_roa"
\* 总资产收益率(ROA), "zichanfuzhailv" 资产负债率, "zongzichanzhouzhuanlv"
\* 总资产周转率, "xianjinliu_jinglirun_bi" 现金流/净利润比, "yanfafeiyonglv"
\* 研发费用率, "chengbenshourubi" 成本收入比
MetricNameCn(metric_name) ==
    CASE metric_name = "gross_margin" -> "maolilv"
      [] metric_name = "net_margin" -> "jinglilv"
      [] metric_name = "roe" -> "jingzichanshouyilv_roe"
      [] metric_name = "roa" -> "zongzichanshouyilv_roa"
      [] metric_name = "debt_ratio" -> "zichanfuzhailv"
      [] metric_name = "asset_turnover" -> "zongzichanzhouzhuanlv"
      [] metric_name = "ocf_to_np" -> "xianjinliu_jinglirun_bi"
      [] metric_name = "rd_ratio" -> "yanfafeiyonglv"
      [] metric_name = "cost_to_income" -> "chengbenshourubi"
      [] OTHER -> metric_name

\* every benchmark of the industry is scored, resolved or not
ResolvedBenchmarks_KeepAll(m, industry_metrics) == industry_metrics

\* lines 139-161: the benchmarks of the industry whose metric resolves, in
\* table order
ResolvedBenchmarks(m, industry_metrics) ==
    SelectSeq(industry_metrics, LAMBDA c : ResolveValue(m, c.name) # None)

\* lines 164-187: the dimension_scores entry of one resolved benchmark
DimensionScore(m, c, ru) ==
    LET result == calculate_metric_score(ResolveValue(m, c.name), c.min,
                                         c.max, c.ideal, c.weight, ru)
    IN  [score |-> result.score,
         weighted_score |-> result.weighted_score,
         rating |-> result.rating,
         value |-> result.value,
         industry_range |-> result.industry_range,
         industry_ideal |-> result.industry_ideal,
         name_cn |-> MetricNameCn(c.name)]

RECURSIVE SeqSum(_)
SeqSum(seq) == IF seq = <<>> THEN 0 ELSE Head(seq) + SeqSum(Tail(seq))

\* special_rules.get(rule) is truthy / equals text
RuleSet(special_rules, rule) ==
    rule \in DOMAIN special_rules /\ special_rules[rule] = TRUE
RuleIs(special_rules, rule, text) ==
    rule \in DOMAIN special_rules /\ special_rules[rule] = text

\* line 196-199: the high debt note is due
HighDebtNoted(m, special_rules) ==
    /\ RuleIs(special_rules, "debt_tolerance", "high")
    /\ safe_float(GetOr(m, "debt_ratio", Num(0)), Num(0)).v > 7000

\* lines 202-206: the cashflow penalty is due
CashflowPenalised(m, special_rules) ==
    /\ RuleSet(special_rules, "cashflow_critical")
    /\ safe_float(GetOr(m, "ocf_to_np", Num(100)), Num(0)).v < 50

\* lines 209-213: the research bonus is due
RdBonus(m, special_rules) ==
    /\ RuleSet(special_rules, "high_rd_bonus")
    /\ safe_float(GetOr(m, "rd_ratio", Num(0)), Num(0)).v > 1500

\* the factor when the high debt rule also lowers it
AdjustmentFactor_HighDebtCounts(m, special_rules) ==
    LET after_debt == IF HighDebtNoted(m, special_rules)
                      THEN (100 * 90) \div 100 ELSE 100
        after_cashflow == IF CashflowPenalised(m, special_rules)
                          THEN (after_debt * 80) \div 100 ELSE after_debt
    IN  IF RdBonus(m, special_rules)
        THEN (after_cashflow * 110) \div 100 ELSE after_cashflow

\* lines 192-213: adjustment_factor in hundredths
AdjustmentFactor(m, special_rules) ==
    LET after_cashflow == IF CashflowPenalised(m, special_rules)
                          THEN (100 * 80) \div 100 ELSE 100
    IN  IF RdBonus(m, special_rules)
        THEN (after_cashflow * 110) \div 100 ELSE after_cashflow

\* lines 193-213: adjustment_notes; "high_debt_normal" {name}行业高负债为常态,
\* "cashflow_deteriorated" 现金流严重恶化，扣减评分, "rd_bonus"
\* 研发投入突出，加分奖励
AdjustmentNotes(m, special_rules) ==
    (IF HighDebtNoted(m, special_rules) THEN <<"high_debt_normal">> ELSE <<>>)
    \o (IF CashflowPenalised(m, special_rules)
        THEN <<"cashflow_deteriorated">> ELSE <<>>)
    \o (IF RdBonus(m, special_rules) THEN <<"rd_bonus">> ELSE <<>>)

\* the risk tiers with cut points that exclude the boundary score
IndustryRisk_Exclusive(normalized_score) ==
    IF normalized_score > 8000
    THEN [risk_level |-> "difengxian", risk_class |-> "low"]
    ELSE IF normalized_score > 6000
    THEN [risk_level |-> "zhongdifengxian", risk_class |-> "medium-low"]
    ELSE IF normalized_score > 4000
    THEN [risk_level |-> "zhongdengfengxian", risk_class |-> "medium"]
    ELSE IF normalized_score > 2000
    THEN [risk_level |-> "zhonggaofengxian", risk_class |-> "medium-high"]
    ELSE [risk_level |-> "gaofengxian", risk_class |-> "high"]

\* lines 223-237: risk_level and risk_class; the levels are "difengxian"
\* 低风险, "zhongdifengxian" 中低风险, "zhongdengfengxian" 中等风险,
\* "zhonggaofengxian" 中高风险, "gaofengxian" 高风险
IndustryRisk(normalized_score) ==
    IF normalized_score >= 8000
    THEN [risk_level |-> "difengxian", risk_class |-> "low"]
    ELSE IF normalized_score >= 6000
    THEN [risk_level |-> "zhongdifengxian", risk_class |-> "medium-low"]
    ELSE IF normalized_score >= 4000
    THEN [risk_level |-> "zhongdengfengxian", risk_class |-> "medium"]
    ELSE IF normalized_score >= 2000
    THEN [risk_level |-> "zhonggaofengxian", risk_class |-> "medium-high"]
    ELSE [risk_level |-> "gaofengxian", risk_class |-> "high"]

\* lines 273-306: the comparison entry of benchmark c, whose metric is present
\* under its own name and whose ideal is not 0; "chiping" 持平, "youyu" 优于,
\* "diyu" 低于
Comparison(m, c, ru) ==
    LET value == safe_float(m[c.name], Num(0)).v
        diff == value - c.ideal
        sign == IF c.ideal < 0 THEN -1 ELSE 1
        at == 100 * Abs(diff) <= 10 * Abs(c.ideal)
    IN  [company_value |-> value,
         industry_ideal |-> c.ideal,
         difference |-> diff,
         difference_pct |->
             Round2(sign * diff * 10000, Abs(c.ideal), ru["derived"]),
         status |-> IF at THEN "at" ELSE IF diff > 0 THEN "above" ELSE "below",
         status_cn |-> IF at THEN "chiping"
                       ELSE IF diff > 0 THEN "youyu" ELSE "diyu"]

\* _generate_comparison: metric name -> comparison entry
generate_comparison(company_metrics, industry_metrics, ru) ==
    LET compared == {c \in Range(industry_metrics) :
                        /\ Get(company_metrics, c.name) # None
                        /\ c.ideal # 0}
    IN  [name \in {c.name : c \in compared} |->
            Comparison(company_metrics,
                       CHOOSE c \in compared : c.name = name, ru)]

\* _generate_recommendations; dimension_scores is given as the sequence of
\* the resolved benchmarks and the dict of their entries.  The sentences are
\* "base_low" 财务状况优秀，行业竞争力强，可考虑配置, "base_medium-low"
\* 财务状况良好，部分指标需关注, "base_medium" 财务状况一般，建议深入分析薄弱环节,
\* "base_medium-high" 财务状况需警惕，存在明显风险点, "base_high"
\* 财务状况高风险，建议回避, "watch_cashflow" 现金流状况需重点关注,
\* "high_debt_is_normal" 行业高负债为常态，需关注有息负债成本, "rd_high"
\* 研发投入较高，长期竞争力有保障, "weak" 需关注: with up to three names
generate_recommendations(resolved, dimension_scores, industry_id, risk_level) ==
    LET special_rules == get_industry_info(industry_id).special_rules
        ScoreOrZero(name) == IF name \in DOMAIN dimension_scores
                             THEN dimension_scores[name].score ELSE 0
        Sentence(text) == [text |-> text, names |-> <<>>]
        weak == SelectSeq(resolved,
                          LAMBDA c : dimension_scores[c.name].score < 4000)
        weak_names == [i \in 1 .. Len(weak) |->
                          dimension_scores[weak[i].name].name_cn]
    IN  <<Sentence(CASE risk_level = "difengxian" -> "base_low"
                     [] risk_level = "zhongdifengxian" -> "base_medium-low"
                     [] risk_level = "zhongdengfengxian" -> "base_medium"
                     [] risk_level = "zhonggaofengxian" -> "base_medium-high"
                     [] OTHER -> "base_high")>>
        \o (IF RuleSet(special_rules, "cashflow_critical")
               /\ ScoreOrZero("ocf_to_np") < 4000
            THEN <<Sentence("watch_cashflow")>> ELSE <<>>)
        \o (IF RuleIs(special_rules, "debt_tolerance", "high")
            THEN <<Sentence("high_debt_is_normal")>> ELSE <<>>)
        \o (IF RuleSet(special_rules, "high_rd_bonus")
               /\ ScoreOrZero("rd_ratio") >= 6000
            THEN <<Sentence("rd_high")>> ELSE <<>>)
        \o (IF weak # <<>>
            THEN <<[text |-> "weak",
                    names |-> SubSeq(weak_names, 1,
                                     IF Len(weak_names) < 3
                                     THEN Len(weak_names) ELSE 3)]>>
            ELSE <<>>)

\* lines 130-263: the result for the industry the security is classified
\* as; scores and max_score in hundredths
ScoreInIndustry(m, industry_id, ru) ==
    LET industry_info == get_industry_info(industry_id)
        industry_metrics == industry_info.metrics
        special_rules == industry_info.special_rules
        resolved == ResolvedBenchmarks(m, industry_metrics)
        dimension_scores ==
            [name \in {c.name : c \in Range(resolved)} |->
                DimensionScore(m, CHOOSE c \in Range(resolved) : c.name = name,
                               ru)]
        total_weighted_score ==
            SeqSum([i \in 1 .. Len(resolved) |->
                       dimension_scores[resolved[i].name].weighted_score])
        total_max_score ==
            SeqSum([i \in 1 .. Len(resolved) |-> 100 * resolved[i].weight])
        adjustment_factor == AdjustmentFactor(m, special_rules)
        final_score ==
            Round2(total_weighted_score * adjustment_factor, 100, ru["derived"])
        normalized_score ==
            IF total_max_score > 0
            THEN Round2(final_score * 10000, total_max_score, ru["derived"])
            ELSE 0
        risk == IndustryRisk(normalized_score)
    IN  [industry |-> [id |-> industry_id, name |-> industry_info.name,
                       name_en |-> industry_info.name_en],
         dimension_scores |-> dimension_scores,
         raw_score |-> final_score,
         normalized_score |-> normalized_score,
         max_score |-> total_max_score,
         adjustment_factor |-> adjustment_factor,
         adjustment_notes |-> AdjustmentNotes(m, special_rules),
         risk_level |-> risk.risk_level,
         risk_class |-> risk.risk_class,
         industry_comparison |->
             generate_comparison(m, industry_metrics, ru),
         recommendations |->
             generate_recommendations(resolved, dimension_scores, industry_id,
                                      risk.risk_level)]

\* sec is the security [stock_code, company_name, sw_industry]
calculate_industry_adjusted_score(m, sec, ru) ==
    ScoreInIndustry(m, classify(sec.stock_code, sec.company_name,
                                sec.sw_industry), ru)

(***************************************************************************)
(* fetch_data.py: calculate_health_score_v2                                *)
(***************************************************************************)
\* Python's `x or default` for x None or a number: None and 0 are falsy
OrDefault(x, default) == IF x = None \/ x.v = 0 THEN default ELSE x.v

\* lines 531-545; details: "roe_gt_15" 优秀 (ROE>15%), "roe_10_15" 良好
\* (ROE 10-15%), "roe_5_10" 一般 (ROE 5-10%), "roe_0_5" 较弱 (ROE 0-5%),
\* "loss" 亏损
Profitability(m) ==
    LET roe == OrDefault(Get(m, "roe"), 0)
    IN  IF roe > 1500 THEN [score |-> 25, max |-> 25, detail |-> "roe_gt_15"]
        ELSE IF roe > 1000 THEN [score |-> 20, max |-> 25, detail |-> "roe_10_15"]
        ELSE IF roe > 500 THEN [score |-> 15, max |-> 25, detail |-> "roe_5_10"]
        ELSE IF roe > 0 THEN [score |-> 10, max |-> 25, detail |-> "roe_0_5"]
        ELSE [score |-> 0, max |-> 25, detail |-> "loss"]

\* lines 548-563; details: "debt_lt_40" 低风险 (负债率<40%), "debt_40_50" 适中
\* (负债率40-50%), "debt_50_60" 需关注 (负债率50-60%), "debt_60_70" 较高
\* (负债率60-70%), "debt_gt_70" 高风险 (负债率>70%)
Solvency(m) ==
    LET debt_ratio == OrDefault(Get(m, "debt_ratio"), 10000)
    IN  IF debt_ratio < 4000 THEN [score |-> 25, max |-> 25, detail |-> "debt_lt_40"]
        ELSE IF debt_ratio < 5000 THEN [score |-> 20, max |-> 25, detail |-> "debt_40_50"]
        ELSE IF debt_ratio < 6000 THEN [score |-> 15, max |-> 25, detail |-> "debt_50_60"]
        ELSE IF debt_ratio < 7000 THEN [score |-> 10, max |-> 25, detail |-> "debt_60_70"]
        ELSE [score |-> 5, max |-> 25, detail |-> "debt_gt_70"]

Efficiency_Inclusive(m) ==
    LET turnover == OrDefault(Get(m, "asset_turnover"), 0)
    IN  IF turnover >= 100 THEN [score |-> 20, max |-> 20, detail |-> "turnover_gt_1"]
        ELSE IF turnover >= 70 THEN [score |-> 15, max |-> 20, detail |-> "turnover_07_1"]
        ELSE IF turnover >= 50 THEN [score |-> 10, max |-> 20, detail |-> "turnover_05_07"]
        ELSE IF turnover >= 30 THEN [score |-> 5, max |-> 20, detail |-> "turnover_03_05"]
        ELSE [score |-> 0, max |-> 20, detail |-> "turnover_lt_03"]

\* lines 566-580; details: "turnover_gt_1" 高效 (周转率>1.0), "turnover_07_1"
\* 良好 (周转率0.7-1.0), "turnover_05_07" 一般 (周转率0.5-0.7),
\* "turnover_03_05" 较低 (周转率0.3-0.5), "turnover_lt_03" 低效 (周转率<0.3)
Efficiency(m) ==
    LET turnover == OrDefault(Get(m, "asset_turnover"), 0)
    IN  IF turnover > 100 THEN [score |-> 20, max |-> 20, detail |-> "turnover_gt_1"]
        ELSE IF turnover > 70 THEN [score |-> 15, max |-> 20, detail |-> "turnover_07_1"]
        ELSE IF turnover > 50 THEN [score |-> 10, max |-> 20, detail |-> "turnover_05_07"]
        ELSE IF turnover > 30 THEN [score |-> 5, max |-> 20, detail |-> "turnover_03_05"]
        ELSE [score |-> 0, max |-> 20, detail |-> "turnover_lt_03"]

\* growth that awards its maximum
Growth_FullMarks(m) ==
    LET npm == OrDefault(Get(m, "net_profit_margin"), 0)
    IN  IF npm > 1000 THEN [score |-> 15, max |-> 15, detail |-> "growth_good"]
        ELSE IF npm > 500 THEN [score |-> 8, max |-> 15, detail |-> "growth_fair"]
        ELSE [score |-> 5, max |-> 15, detail |-> "growth_pending"]

\* lines 584-593; details: "growth_good" 良好 (需历史数据确认), "growth_fair"
\* 一般 (需历史数据确认), "growth_pending" 待评估
Growth(m) ==
    LET npm == OrDefault(Get(m, "net_profit_margin"), 0)
    IN  IF npm > 1000 THEN [score |-> 12, max |-> 15, detail |-> "growth_good"]
        ELSE IF npm > 500 THEN [score |-> 8, max |-> 15, detail |-> "growth_fair"]
        ELSE [score |-> 5, max |-> 15, detail |-> "growth_pending"]

Cashflow_PercentThresholds(m) ==
    LET ocf_ratio == OrDefault(Get(m, "ocf_to_np"), 0)
    IN  IF ocf_ratio > 12000 THEN [score |-> 15, max |-> 15, detail |-> "ocf_gt_12"]
        ELSE IF ocf_ratio > 10000 THEN [score |-> 12, max |-> 15, detail |-> "ocf_gt_10"]
        ELSE IF ocf_ratio > 8000 THEN [score |-> 8, max |-> 15, detail |-> "ocf_08_10"]
        ELSE IF ocf_ratio > 5000 THEN [score |-> 4, max |-> 15, detail |-> "ocf_05_08"]
        ELSE IF ocf_ratio > 0 THEN [score |-> 2, max |-> 15, detail |-> "ocf_lt_05"]
        ELSE [score |-> 0, max |-> 15, detail |-> "ocf_negative"]

\* lines 596-614; details: "ocf_gt_12" 优秀 (现金流/净利润>1.2), "ocf_gt_10" 良好
\* (现金流/净利润>1.0), "ocf_08_10" 一般 (现金流/净利润 0.8-1.0), "ocf_05_08"
\* 需关注 (现金流/净利润 0.5-0.8), "ocf_lt_05" 较差 (现金流/净利润<0.5),
\* "ocf_negative" 很差 (经营现金流为负)
Cashflow(m) ==
    LET ocf_ratio == OrDefault(Get(m, "ocf_to_np"), 0)
    IN  IF ocf_ratio > 120 THEN [score |-> 15, max |-> 15, detail |-> "ocf_gt_12"]
        ELSE IF ocf_ratio > 100 THEN [score |-> 12, max |-> 15, detail |-> "ocf_gt_10"]
        ELSE IF ocf_ratio > 80 THEN [score |-> 8, max |-> 15, detail |-> "ocf_08_10"]
        ELSE IF ocf_ratio > 50 THEN [score |-> 4, max |-> 15, detail |-> "ocf_05_08"]
        ELSE IF ocf_ratio > 0 THEN [score |-> 2, max |-> 15, detail |-> "ocf_lt_05"]
        ELSE [score |-> 0, max |-> 15, detail |-> "ocf_negative"]

\* lines 620-629; "difengxian" 低风险, "zhongdifengxian" 中低风险,
\* "zhongdengfengxian" 中等风险, "zhonggaofengxian" 中高风险, "gaofengxian"
\* 高风险
HealthRiskLevel(total_score) ==
    IF total_score >= 80 THEN "difengxian"
    ELSE IF total_score >= 60 THEN "zhongdifengxian"
    ELSE IF total_score >= 40 THEN "zhongdengfengxian"
    ELSE IF total_score >= 20 THEN "zhonggaofengxian"
    ELSE "gaofengxian"

DimensionNames ==
    {"profitability", "solvency", "efficiency", "growth", "cashflow"}

\* sum(s['score'] for s in scores.values())
SumScores(scores) ==
    scores.profitability.score + scores.solvency.score
        + scores.efficiency.score + scores.growth.score
        + scores.cashflow.score

calculate_health_score_v2(m) ==
    LET scores == [profitability |-> Profitability(m),
                   solvency |-> Solvency(m),
                   efficiency |-> Efficiency(m),
                   growth |-> Growth(m),
                   cashflow |-> Cashflow(m)]
        total_score == SumScores(scores)
    IN  [total_score |-> total_score,
         risk_level |-> HealthRiskLevel(total_score),
         dimensions |-> scores]

(***************************************************************************)
(* Inputs                                                                  *)
(***************************************************************************)
\* a dict key that is not present
Absent == [t |-> "absent"]

\* the dict holding the present entries of f
MkDict(f) == [k \in {x \in DOMAIN f : f[x] # Absent} |-> f[k]]

EmptyDict == MkDict([k \in {} |-> Absent])

\* bounds of the inputs of calculate_metric_score: benchmarks with min, max
\* and ideal in -GridMax .. GridMax, values up to MaxDelta hundredths away
\* from min, ideal and max
GridMax == 2
MaxDelta == 1

GridBenchmarks ==
    {B("grid", p[1], p[2], p[3], 100) :
        p \in {q \in (-GridMax .. GridMax) \X (-GridMax .. GridMax)
                       \X (-GridMax .. GridMax) : q[1] <= q[2]}}

\* every benchmark of the table
TableBenchmarks ==
    UNION {Range(INDUSTRY_BENCHMARKS[id].metrics) : id \in Range(IndustryIds)}

\* the defaults config.get("min", 0), config.get("max", 100),
\* config.get("ideal", 50) with the default weight 1.0
DefaultBenchmark == B("default", 0, 10000, 5000, 100)

Benchmarks == GridBenchmarks \cup TableBenchmarks \cup {DefaultBenchmark}

\* the values tried against benchmark b
MetricValues(b) ==
    {None} \cup {Num(0)} \cup
    {Num(x + d) : x \in {b.min, b.ideal, b.max}, d \in -MaxDelta .. MaxDelta}

\* the key_metrics of the sample report of html_template.py that
\* calculate_health_score_v2 reads
SampleMetrics ==
    [roe |-> Num(2518), debt_ratio |-> Num(1281), asset_turnover |-> Num(43),
     net_profit_margin |-> Num(5111), ocf_to_np |-> Num(5710)]

\* per driving metric: absent, None, the sample value, and the values at and
\* next to each threshold
HealthValues ==
    [roe |-> {Absent, None} \cup {Num(x) : x \in
                {-1, 0, 1, 500, 501, 1000, 1001, 1500, 1501, 2518}},
     debt_ratio |-> {Absent, None} \cup {Num(x) : x \in
                {0, 1281, 3999, 4000, 4999, 5000, 5999, 6000, 6999, 7000}},
     asset_turnover |-> {Absent, None} \cup {Num(x) : x \in
                {0, 30, 31, 43, 50, 51, 70, 71, 100, 101}},
     net_profit_margin |-> {Absent, None} \cup {Num(x) : x \in
                {0, 500, 501, 1000, 1001, 5111}},
     ocf_to_np |-> {Absent, None} \cup {Num(x) : x \in
                {-1, 0, 1, 50, 51, 80, 81, 100, 101, 120, 121, 5710}}]

(***************************************************************************)
(* fetch_data.py: calculate_advanced_metrics                               *)
(*                                                                         *)
(* Amounts of the statements count millions (1e6), so that an amount       *)
(* divided by 1e8 and rounded to two places is the amount itself in        *)
(* hundredths; ratios are in hundredths like every other metric.           *)
(***************************************************************************)
\* fetch_data.safe_float(value, default): default for None and for what
\* float() rejects
safe_float_fetch_data(value, default) ==
    IF value = None \/ value = Text THEN default ELSE value

\* d.get(k1) or d.get(k2) or ... or 0: the first value that is truthy (not
\* None, not zero) under the keys, 0 when there is none
FirstTruthy(d, keys) ==
    LET truthy == {i \in 1 .. Len(keys) :
                      /\ keys[i] \in DOMAIN d
                      /\ d[keys[i]] # None
                      /\ (d[keys[i]] = Text \/ d[keys[i]].v # 0)}
    IN  IF truthy = {} THEN Num(0) ELSE d[keys[SetMin(truthy)]]

\* safe_float(d.get(k1) or ... or 0)
Amount(d, keys) == safe_float_fetch_data(FirstTruthy(d, keys), Num(0)).v

\* `if cashflow:` a dict that is not empty
HasCashflow(cf) == cf # None /\ DOMAIN cf # {}

\* lines 381-393 and 420-440: the base data; the Chinese keys are
\* "yingyeshouru" 营业收入, "yingyezongshouru" 营业总收入, "yingyechengben"
\* 营业成本, "jinglirun" 净利润, "guishu_mugongsi_jinglirun"
\* 归属于母公司所有者的净利润, "yingyelirun" 营业利润, "zichanzongji" 资产总计,
\* "fuzhaiheji" 负债合计, "liudongzichanheji" 流动资产合计,
\* "liudongfuzhaiheji" 流动负债合计, "cunhuo" 存货
BaseData(inc, bal, cf) ==
    LET total_assets == Amount(bal, <<"TOTAL_ASSETS", "zichanzongji">>)
        total_liabilities ==
            Amount(bal, <<"TOTAL_LIABILITIES", "fuzhaiheji">>)
        Cash(key) == IF HasCashflow(cf) THEN Amount(cf, <<key>>) ELSE 0
    IN  [revenue |-> Amount(inc, <<"TOTAL_OPERATE_INCOME", "yingyeshouru",
                                   "yingyezongshouru">>),
         cost |-> Amount(inc, <<"TOTAL_OPERATE_COST", "yingyechengben">>),
         net_profit |-> Amount(inc, <<"NETPROFIT", "jinglirun",
                                      "guishu_mugongsi_jinglirun">>),
         operating_profit |-> Amount(inc, <<"OPERATE_PROFIT", "yingyelirun">>),
         total_assets |-> total_assets,
         total_liabilities |-> total_liabilities,
         current_assets |-> Amount(bal, <<"TOTAL_CURRENT_ASSETS",
                                          "liudongzichanheji">>),
         current_liabilities |-> Amount(bal, <<"TOTAL_CURRENT_LIABILITIES",
                                               "liudongfuzhaiheji">>),
         inventory |-> Amount(bal, <<"INVENTORY", "cunhuo">>),
         equity |-> total_assets - total_liabilities,
         operating_cf |-> Cash("NETCASH_OPERATE"),
         investing_cf |-> Cash("NETCASH_INVEST"),
         financing_cf |-> Cash("NETCASH_FINANCE"),
         capex |-> Cash("CONSTRUCT_LONG_ASSET"),
         net_cash_increase |-> Cash("CCE_ADD"),
         ending_cash |-> Cash("END_CCE"),
         dividends_paid |-> Cash("ASSIGN_DIVIDEND_PORFIT")]

\* round(num / den, 2) in hundredths, num already scaled, den # 0
Quotient(num, den, up) ==
    IF den > 0 THEN Round2(num, den, up) ELSE Round2(-num, -den, up)

\* `round(...) if x else None`
IfTruthy(x, value) == IF x # 0 THEN Num(value) ELSE None

\* calculate_advanced_metrics(income, balance, cashflow): the dict of the
\* derived metrics; a key the code does not set is absent
calculate_advanced_metrics(inc, bal, cf, ru) ==
    LET d == BaseData(inc, bal, cf)
        up == ru["derived"]
    IN  MkDict(
        [gross_margin |->
             IF d.revenue > 0
             THEN IfTruthy(d.cost, Quotient((d.revenue - d.cost) * 10000,
                                            d.revenue, up))
             ELSE Absent,
         operating_margin |->
             IF d.revenue > 0
             THEN IfTruthy(d.operating_profit,
                           Quotient(d.operating_profit * 10000, d.revenue, up))
             ELSE Absent,
         roe |->
             IF d.equity > 0
             THEN IfTruthy(d.net_profit,
                           Quotient(d.net_profit * 10000, d.equity, up))
             ELSE Absent,
         roa |->
             IF d.total_assets > 0
             THEN IfTruthy(d.net_profit,
                           Quotient(d.net_profit * 10000, d.total_assets, up))
             ELSE Absent,
         current_ratio |->
             IF d.current_liabilities > 0
             THEN IfTruthy(d.current_assets,
                           Quotient(d.current_assets * 100,
                                    d.current_liabilities, up))
             ELSE Absent,
         quick_ratio |->
             IF d.current_liabilities > 0
             THEN IfTruthy(d.current_assets,
                           Quotient((d.current_assets - d.inventory) * 100,
                                    d.current_liabilities, up))
             ELSE Absent,
         equity_multiplier |->
             IF d.equity > 0
             THEN Num(Quotient(d.total_assets * 100, d.equity, up))
             ELSE Absent,
         asset_turnover |->
             IF d.total_assets > 0
             THEN IfTruthy(d.revenue,
                           Quotient(d.revenue * 100, d.total_assets, up))
             ELSE Absent,
         ocf_to_np |->
             IF HasCashflow(cf) /\ d.net_profit # 0
             THEN IfTruthy(d.operating_cf,
                           Quotient(d.operating_cf * 10000, d.net_profit, up))
             ELSE Absent,
         operating_cash_flow_billion |->
             IF HasCashflow(cf)
             THEN IfTruthy(d.operating_cf, d.operating_cf) ELSE Absent,
         investing_cash_flow_billion |->
             IF HasCashflow(cf) THEN Num(d.investing_cf) ELSE Absent,
         financing_cash_flow_billion |->
             IF HasCashflow(cf) THEN Num(d.financing_cf) ELSE Absent,
         free_cash_flow_billion |->
             IF HasCashflow(cf)
             THEN IfTruthy(d.operating_cf, d.operating_cf - d.capex)
             ELSE Absent,
         capex_billion |->
             IF HasCashflow(cf) THEN IfTruthy(d.capex, d.capex) ELSE Absent,
         net_cash_increase_billion |->
             IF HasCashflow(cf) THEN Num(d.net_cash_increase) ELSE Absent,
         ending_cash_billion |->
             IF HasCashflow(cf)
             THEN IfTruthy(d.ending_cash, d.ending_cash) ELSE Absent,
         dividends_paid_billion |->
             IF HasCashflow(cf)
             THEN IfTruthy(d.dividends_paid, d.dividends_paid) ELSE Absent,
         cash_quality |->
             IF HasCashflow(cf) /\ d.operating_cf > 0 /\ d.net_profit > 0
             THEN Num(Quotient(d.operating_cf * 100, d.net_profit, up))
             ELSE IF HasCashflow(cf) /\ d.operating_cf < 0 THEN Num(-100)
             ELSE Absent,
         capex_ratio |->
             IF HasCashflow(cf) /\ d.operating_cf # 0
             THEN IfTruthy(d.capex,
                           Quotient(Abs(d.capex) * 10000, Abs(d.operating_cf),
                                    up))
             ELSE Absent])

(***************************************************************************)
(* calculate_metric_score applied to one benchmark                         *)
(***************************************************************************)
InitMetric ==
    /\ benchmarks = INDUSTRY_BENCHMARKS
    /\ sw_mapping = SW_INDUSTRY_MAPPING
    /\ round_up \in [TieSites -> BOOLEAN]
    /\ bench \in Benchmarks
    /\ cur = NoCall
    /\ metrics = EmptyDict
    /\ security = NoCall
    /\ edits = 0
    /\ classified = NoCall
    /\ matches = NoCall
    /\ health = NoCall
    /\ industry = NoCall
    /\ income = NoCall
    /\ balance = NoCall
    /\ cashflow = NoCall
    /\ advanced = NoCall
    /\ global_config = NoCall
    /\ environ = NoCall
    /\ client = NoCall
    /\ wrapper = NoCall

CalculateMetricScore ==
    /\ \E value \in MetricValues(bench) :
          cur' = calculate_metric_score(value, bench.min, bench.max,
                                        bench.ideal, bench.weight, round_up)
    /\ UNCHANGED <<global_config, environ, client, wrapper,
                   income, balance, cashflow, advanced,
                   benchmarks, sw_mapping, round_up, bench, metrics,
                   security, edits, classified, health, industry, matches>>

NextMetric == CalculateMetricScore

SpecMetric == InitMetric /\ [][NextMetric]_vars

(***************************************************************************)
(* calculate_health_score_v2 applied to one metrics dict                   *)
(***************************************************************************)
InitHealth ==
    /\ benchmarks = INDUSTRY_BENCHMARKS
    /\ sw_mapping = SW_INDUSTRY_MAPPING
    /\ round_up = [s \in TieSites |-> FALSE]
    /\ bench = NoCall
    /\ cur = NoCall
    /\ \E roe \in HealthValues.roe, debt_ratio \in HealthValues.debt_ratio,
          asset_turnover \in HealthValues.asset_turnover,
          net_profit_margin \in HealthValues.net_profit_margin,
          ocf_to_np \in HealthValues.ocf_to_np :
          metrics = MkDict([roe |-> roe, debt_ratio |-> debt_ratio,
                            asset_turnover |-> asset_turnover,
                            net_profit_margin |-> net_profit_margin,
                            ocf_to_np |-> ocf_to_np])
    /\ security = NoCall
    /\ edits = 0
    /\ classified = NoCall
    /\ matches = NoCall
    /\ health = NoCall
    /\ industry = NoCall
    /\ income = NoCall
    /\ balance = NoCall
    /\ cashflow = NoCall
    /\ advanced = NoCall
    /\ global_config = NoCall
    /\ environ = NoCall
    /\ client = NoCall
    /\ wrapper = NoCall

CalculateHealthScoreV2 ==
    /\ health' = calculate_health_score_v2(metrics)
    /\ UNCHANGED <<global_config, environ, client, wrapper,
                   income, balance, cashflow, advanced,
                   benchmarks, sw_mapping, round_up, bench, cur, metrics,
                   security, edits, classified, industry, matches>>

NextHealth == CalculateHealthScoreV2

SpecHealth == InitHealth /\ [][NextHealth]_vars

(***************************************************************************)
(* calculate_industry_adjusted_score applied to one security and dict      *)
(***************************************************************************)
Security(stock_code, company_name, sw_industry) ==
    [stock_code |-> stock_code, company_name |-> company_name,
     sw_industry |-> sw_industry]

\* the test cases of industry_classifier.py, the call with the default
\* arguments, and a call that gives only the sector tag
Securities ==
    {
     \* ("600519", "贵州茅台", None)
     Security(Str(<<54, 48, 48, 53, 49, 57>>), Str(<<36149, 24030, 33541, 21488>>),
              None),
     \* ("688981", "中芯国际", None)
     Security(Str(<<54, 56, 56, 57, 56, 49>>), Str(<<20013, 33455, 22269, 38469>>),
              None),
     \* ("601668", "中国建筑", None)
     Security(Str(<<54, 48, 49, 54, 54, 56>>), Str(<<20013, 22269, 24314, 31569>>),
              None),
     \* ("000001", "平安银行", None)
     Security(Str(<<48, 48, 48, 48, 48, 49>>), Str(<<24179, 23433, 38134, 34892>>),
              None),
     \* ("600031", "三一重工", None)
     Security(Str(<<54, 48, 48, 48, 51, 49>>), Str(<<19977, 19968, 37325, 24037>>),
              None),
     \* ("000002", "万科A", None)
     Security(Str(<<48, 48, 48, 48, 48, 50>>), Str(<<19975, 31185, 65>>),
              None),
     \* ("", "", None)
     Security(Str(<<>>), Str(<<>>),
              None),
     \* ("", "", "银行")
     Security(Str(<<>>), Str(<<>>),
              Str(<<38134, 34892>>))
    }

\* test_metrics of industry_scorer.py
TestMetrics ==
    [gross_margin |-> Num(5126), net_profit_margin |-> Num(5126),
     roe |-> Num(2250), roa |-> Num(1820), debt_ratio |-> Num(2150),
     asset_turnover |-> Num(85)]

\* every metric of the industry at its ideal value
IdealMetrics(industry_id) ==
    LET industry_metrics == get_industry_info(industry_id).metrics
    IN  [name \in {c.name : c \in Range(industry_metrics)} |->
            Num((CHOOSE c \in Range(industry_metrics) : c.name = name).ideal)]

\* the number of entries the caller changes before the call
MaxEdits == 1

\* the entries a caller may set: the values at and next to the thresholds of
\* the special rules, None and non-numeric text, and the alias keys
MetricEdits ==
    [rd_ratio |-> {None, Num(1500), Num(1501)},
     ocf_to_np |-> {Absent, None, Text, Num(49), Num(50)},
     debt_ratio |-> {Absent, Num(7000), Num(7001)},
     roe |-> {Absent, Num(0), Num(-1000)},
     net_margin |-> {None, Num(1000)},
     net_profit_margin |-> {Num(1500)},
     jinglilv |-> {Num(2000)},
     maolilv |-> {Num(3000)},
     zichanfuzhailv |-> {Num(7500)}]

\* the start with a table whose consumer weights sum to 1.05
InitIndustry_SkewedTable ==
    /\ benchmarks = [INDUSTRY_BENCHMARKS EXCEPT
                        !.consumer.metrics[1].weight = @ + 5]
    /\ sw_mapping = SW_INDUSTRY_MAPPING
    /\ round_up \in [TieSites -> BOOLEAN]
    /\ bench = NoCall
    /\ cur = NoCall
    /\ security \in Securities
    /\ metrics \in {EmptyDict, TestMetrics,
                    IdealMetrics(classify(security.stock_code,
                                          security.company_name,
                                          security.sw_industry))}
    /\ edits = 0
    /\ classified = NoCall
    /\ matches = NoCall
    /\ health = NoCall
    /\ industry = NoCall
    /\ income = NoCall
    /\ balance = NoCall
    /\ cashflow = NoCall
    /\ advanced = NoCall
    /\ global_config = NoCall
    /\ environ = NoCall
    /\ client = NoCall
    /\ wrapper = NoCall

InitIndustry ==
    /\ benchmarks = INDUSTRY_BENCHMARKS
    /\ sw_mapping = SW_INDUSTRY_MAPPING
    /\ round_up \in [TieSites -> BOOLEAN]
    /\ bench = NoCall
    /\ cur = NoCall
    /\ security \in Securities
    /\ metrics \in {EmptyDict, TestMetrics,
                    IdealMetrics(classify(security.stock_code,
                                          security.company_name,
                                          security.sw_industry))}
    /\ edits = 0
    /\ classified = NoCall
    /\ matches = NoCall
    /\ health = NoCall
    /\ industry = NoCall
    /\ income = NoCall
    /\ balance = NoCall
    /\ cashflow = NoCall
    /\ advanced = NoCall
    /\ global_config = NoCall
    /\ environ = NoCall
    /\ client = NoCall
    /\ wrapper = NoCall

\* the caller sets or deletes one entry of the dict before the call
SetMetric ==
    /\ industry = NoCall
    /\ edits < MaxEdits
    /\ \E key \in DOMAIN MetricEdits : \E value \in MetricEdits[key] :
          metrics' = MkDict([k \in DOMAIN metrics \cup {key} |->
                                IF k = key THEN value ELSE metrics[k]])
    /\ edits' = edits + 1
    /\ UNCHANGED <<global_config, environ, client, wrapper,
                   income, balance, cashflow, advanced,
                   benchmarks, sw_mapping, round_up, bench, cur, security,
                   classified, health, industry, matches>>

CalculateIndustryAdjustedScore ==
    /\ industry' = calculate_industry_adjusted_score(metrics, security,
                                                     round_up)
    /\ UNCHANGED <<global_config, environ, client, wrapper,
                   income, balance, cashflow, advanced,
                   benchmarks, sw_mapping, round_up, bench, cur, metrics,
                   security, edits, classified, health, matches>>

NextIndustry == SetMetric \/ CalculateIndustryAdjustedScore

SpecIndustry == InitIndustry /\ [][NextIndustry]_vars

(***************************************************************************)
(* IndustryClassifier.classify applied to one security                     *)
(***************************************************************************)
\* codes: empty, of each code rule, listed as an example of one industry
\* while matching a pattern of another, matching no rule, not numeric,
\* padded, signed and too long
ClassifyCodes ==
    {
     Str(<<>>),   \* ""
     Str(<<54, 56, 56, 57, 56, 49>>),   \* "688981"
     Str(<<54, 56, 56, 48, 48, 49>>),   \* "688001"
     Str(<<51, 48, 48, 55, 53, 48>>),   \* "300750"
     Str(<<51, 48, 48, 48, 48, 49>>),   \* "300001"
     Str(<<56, 51, 48, 48, 48, 49>>),   \* "830001"
     Str(<<52, 51, 48, 48, 52, 55>>),   \* "430047"
     Str(<<54, 48, 49, 54, 54, 56>>),   \* "601668"
     Str(<<54, 48, 48, 53, 49, 57>>),   \* "600519"
     Str(<<48, 48, 48, 48, 48, 49>>),   \* "000001"
     Str(<<54, 48, 49, 57, 57, 57>>),   \* "601999"
     Str(<<54, 48, 48, 48, 48, 48>>),   \* "600000"
     Str(<<48, 48, 50, 48, 48, 49>>),   \* "002001"
     Str(<<48, 48, 50, 53, 57, 52>>),   \* "002594"
     Str(<<48, 48, 48, 57, 57, 57>>),   \* "000999"
     Str(<<97, 98, 99>>),   \* "abc"
     Str(<<32, 49, 32>>),   \* " 1 "
     Str(<<45, 49>>),   \* "-1"
     Str(<<49, 50, 51, 52, 53, 54, 55>>),   \* "1234567"
     Str(<<57, 48, 48, 57, 48, 49>>),   \* "900901"
     Str(<<54>>),   \* "6"
     Str(<<56>>)   \* "8"
    }

\* names: absent, empty, with no keyword, with keywords of one and of
\* several industries, with letters in another case, and with one keyword
\* each of two industries that have equally many keywords
ClassifyNames ==
    {
     None,
     Str(<<>>),   \* ""
     Str(<<36149, 24030, 33541, 21488>>),   \* "贵州茅台"
     Str(<<30333, 37202>>),   \* "白酒"
     Str(<<26576, 30333, 37202, 38598, 22242>>),   \* "某白酒集团"
     Str(<<30333, 37202, 21046, 36896>>),   \* "白酒制造"
     Str(<<36719, 20214, 33455, 29255, 30333, 37202>>),   \* "软件芯片白酒"
     Str(<<65, 66, 67, 36719, 20214>>),   \* "ABC软件"
     Str(<<53, 103, 22522, 31449>>),   \* "5g基站"
     Str(<<24179, 23433, 38134, 34892>>),   \* "平安银行"
     Str(<<39135, 21697, 39278, 26009>>),   \* "食品饮料"
     Str(<<26576, 24314, 31569, 21046, 36896>>),   \* "某建筑制造"
     Str(<<26576, 30333, 37202, 36719, 20214>>)   \* "某白酒软件"
    }

\* sector tags: absent, empty, keys of the lookup table (one of them mapped
\* to manufacturing) and a tag that is no key
ClassifyTags ==
    {
     None,
     Str(<<>>),   \* ""
     Str(<<38134, 34892>>),   \* "银行"
     Str(<<27773, 36710>>),   \* "汽车"
     Str(<<39135, 21697, 39278, 26009>>),   \* "食品饮料"
     Str(<<26410, 30693>>),   \* "未知"
     Str(<<35745, 31639, 26426>>)   \* "计算机"
    }

InitClassify ==
    /\ benchmarks = INDUSTRY_BENCHMARKS
    /\ sw_mapping = SW_INDUSTRY_MAPPING
    /\ round_up = [s \in TieSites |-> FALSE]
    /\ bench = NoCall
    /\ cur = NoCall
    /\ metrics = EmptyDict
    /\ \E stock_code \in ClassifyCodes, company_name \in ClassifyNames,
          sw_industry \in ClassifyTags :
          security = Security(stock_code, company_name, sw_industry)
    /\ edits = 0
    /\ classified = NoCall
    /\ matches = NoCall
    /\ health = NoCall
    /\ industry = NoCall
    /\ income = NoCall
    /\ balance = NoCall
    /\ cashflow = NoCall
    /\ advanced = NoCall
    /\ global_config = NoCall
    /\ environ = NoCall
    /\ client = NoCall
    /\ wrapper = NoCall

Classify ==
    /\ classified' = Str(classify(security.stock_code, security.company_name,
                                  security.sw_industry))
    /\ UNCHANGED <<global_config, environ, client, wrapper,
                   income, balance, cashflow, advanced,
                   benchmarks, sw_mapping, round_up, bench, cur, metrics,
                   security, edits, health, industry, matches>>

NextClassify == Classify

SpecClassify == InitClassify /\ [][NextClassify]_vars

(***************************************************************************)
(* Calls of the classifier and of the two scorers in any order, on one     *)
(* security and one metrics dict                                           *)
(***************************************************************************)
InitCalls ==
    /\ benchmarks = INDUSTRY_BENCHMARKS
    /\ sw_mapping = SW_INDUSTRY_MAPPING
    /\ round_up \in [TieSites -> BOOLEAN]
    /\ bench = NoCall
    /\ cur = NoCall
    /\ security \in Securities
    /\ metrics \in {EmptyDict, TestMetrics, SampleMetrics,
                    IdealMetrics(classify(security.stock_code,
                                          security.company_name,
                                          security.sw_industry))}
    /\ edits = 0
    /\ classified = NoCall
    /\ matches = NoCall
    /\ health = NoCall
    /\ industry = NoCall
    /\ income = NoCall
    /\ balance = NoCall
    /\ cashflow = NoCall
    /\ advanced = NoCall
    /\ global_config = NoCall
    /\ environ = NoCall
    /\ client = NoCall
    /\ wrapper = NoCall

GetIndustryMatches ==
    /\ matches' = [t |-> "list",
                    items |-> get_industry_matches(security.stock_code,
                                                   security.company_name,
                                                   security.sw_industry)]
    /\ UNCHANGED <<global_config, environ, client, wrapper,
                   income, balance, cashflow, advanced,
                   benchmarks, sw_mapping, round_up, bench, cur, metrics,
                   security, edits, classified, health, industry>>

NextCalls ==
    \/ Classify
    \/ GetIndustryMatches
    \/ CalculateIndustryAdjustedScore
    \/ CalculateHealthScoreV2

SpecCalls == InitCalls /\ [][NextCalls]_vars

(***************************************************************************)
(* calculate_advanced_metrics applied to one set of statements             *)
(***************************************************************************)
\* income statements: revenue missing, zero, positive, negative and under
\* its second key; cost missing, given and not numeric; profit zero,
\* positive and negative
Incomes ==
    {MkDict([TOTAL_OPERATE_INCOME |-> revenue, yingyeshouru |-> alias,
             TOTAL_OPERATE_COST |-> cost, NETPROFIT |-> net_profit,
             OPERATE_PROFIT |-> operating_profit]) :
        revenue \in {None, Num(0), Num(8), Num(-8)},
        alias \in {Absent, Num(5)},
        cost \in {Absent, Num(3), Text},
        net_profit \in {Num(0), Num(2), Num(-2)},
        operating_profit \in {Num(0), Num(3)}}

\* balance sheets: equity positive, zero and negative, total assets zero,
\* current liabilities zero, positive and negative
Balances ==
    {MkDict([TOTAL_ASSETS |-> total_assets,
             TOTAL_LIABILITIES |-> total_liabilities,
             TOTAL_CURRENT_ASSETS |-> current_assets,
             TOTAL_CURRENT_LIABILITIES |-> current_liabilities,
             INVENTORY |-> inventory]) :
        total_assets \in {Num(0), Num(10)},
        total_liabilities \in {Num(4), Num(10), Num(12)},
        current_assets \in {Num(0), Num(6)},
        current_liabilities \in {Num(0), Num(4), Num(-4)},
        inventory \in {Absent, Num(1)}}

\* cash flow statements: not given, empty, and with the operating cash flow
\* zero, positive and negative
Cashflows ==
    {None, EmptyDict} \cup
    {MkDict([NETCASH_OPERATE |-> operating_cf, NETCASH_INVEST |-> Num(-2),
             CONSTRUCT_LONG_ASSET |-> capex, CCE_ADD |-> Num(1),
             END_CCE |-> Num(7)]) :
        operating_cf \in {Num(0), Num(3), Num(-3)},
        capex \in {Absent, Num(1)}}

InitAdvanced ==
    /\ benchmarks = INDUSTRY_BENCHMARKS
    /\ sw_mapping = SW_INDUSTRY_MAPPING
    /\ round_up = [s \in TieSites |-> FALSE]
    /\ bench = NoCall
    /\ cur = NoCall
    /\ metrics = EmptyDict
    /\ security = NoCall
    /\ edits = 0
    /\ classified = NoCall
    /\ matches = NoCall
    /\ health = NoCall
    /\ industry = NoCall
    /\ income \in Incomes
    /\ balance \in Balances
    /\ cashflow \in Cashflows
    /\ advanced = NoCall
    /\ global_config = NoCall
    /\ environ = NoCall
    /\ client = NoCall
    /\ wrapper = NoCall

CalculateAdvancedMetrics ==
    /\ advanced' = calculate_advanced_metrics(income, balance, cashflow,
                                              round_up)
    /\ UNCHANGED <<global_config, environ, client, wrapper,
                   income, balance, cashflow,
                   benchmarks, sw_mapping, round_up, bench, cur, metrics,
                   security, edits, classified, matches, health, industry>>

NextAdvanced == CalculateAdvancedMetrics

SpecAdvanced == InitAdvanced /\ [][NextAdvanced]_vars

(***************************************************************************)
(* network_client.py: NetworkConfig, retry_on_error, NetworkClient         *)
(*                                                                         *)
(* Modes are written as strings, proxy addresses and the numbers held by   *)
(* environment variables as sequences of code points.  No file             *)
(* config/network.json is present.                                         *)
(***************************************************************************)
\* NetworkConfig.DEFAULT_CONFIG
DEFAULT_CONFIG ==
    [mode |-> Str("auto"),
     proxy |-> [http |-> None, https |-> None, socks5 |-> None],
     timeout |-> 30, retry |-> 3, retry_delay |-> 2, verify_ssl |-> TRUE,
     user_agent |->
         "Mozilla/5.0 (Windows NT 10.0; Win64; x64) AppleWebKit/537.36"]

\* os.getenv(key)
GetEnv(env, key) == IF key \in DOMAIN env THEN env[key] ELSE None

\* a mode string or None is truthy when it is a non-empty string
TruthyMode(x) == x # None /\ x.s # ""

\* a or b
Or(a, b) == IF Truthy(a) THEN a ELSE b

\* int(s) for a string of decimal digits
RECURSIVE ParseInt(_)
ParseInt(s) ==
    IF s = <<>> THEN 0
    ELSE 10 * ParseInt(SubSeq(s, 1, Len(s) - 1)) + (s[Len(s)] - 48)

\* NetworkConfig._load_from_env applied to config
LoadFromEnv(config, env) ==
    LET http == Or(GetEnv(env, "HTTP_PROXY"), GetEnv(env, "http_proxy"))
        https == Or(GetEnv(env, "HTTPS_PROXY"), GetEnv(env, "https_proxy"))
        all == Or(GetEnv(env, "ALL_PROXY"), GetEnv(env, "all_proxy"))
    IN  [config EXCEPT
            !.mode = IF TruthyMode(GetEnv(env, "NET_MODE"))
                     THEN GetEnv(env, "NET_MODE") ELSE @,
            !.proxy = [@ EXCEPT
                !.http = IF Truthy(all) THEN all
                         ELSE IF Truthy(http) THEN http ELSE @,
                !.https = IF Truthy(all) THEN all
                          ELSE IF Truthy(https) THEN https ELSE @],
            !.timeout = IF Truthy(GetEnv(env, "NET_TIMEOUT"))
                        THEN ParseInt(GetEnv(env, "NET_TIMEOUT").s) ELSE @,
            !.retry = IF Truthy(GetEnv(env, "NET_RETRY"))
                      THEN ParseInt(GetEnv(env, "NET_RETRY").s) ELSE @]

\* NetworkConfig(): the default configuration with the environment merged in
NetworkConfig(env) == LoadFromEnv(DEFAULT_CONFIG, env)

\* what get_proxy_config raises: in mode auto with a proxy configured it
\* calls itself without end
RecursionError == [t |-> "raise", error |-> "RecursionError"]

\* NetworkConfig.get_proxy_config: None, or the dict of the proxies to use
get_proxy_config(config) ==
    LET proxy == config.proxy
    IN  IF config.mode = Str("direct") THEN None
        ELSE IF config.mode = Str("proxy") /\ Truthy(proxy.socks5)
             THEN [http |-> proxy.socks5, https |-> proxy.socks5]
        ELSE IF config.mode = Str("proxy")
                /\ (Truthy(proxy.http) \/ Truthy(proxy.https))
             THEN MkDict([http |-> IF Truthy(proxy.http)
                                   THEN proxy.http ELSE Absent,
                          https |-> IF Truthy(proxy.https)
                                    THEN proxy.https ELSE Absent])
        ELSE IF config.mode = Str("auto")
                /\ (Truthy(proxy.socks5) \/ Truthy(proxy.http))
             THEN RecursionError
        ELSE None

\* NetworkDetector.detect_network_mode: direct when one of the domestic test
\* addresses answers, else proxy
detect_network_mode(domestic_ok) ==
    IF domestic_ok THEN Str("direct") ELSE Str("proxy")

\* AkShareWrapper._setup_akshare: os.environ after the proxies are set or
\* cleared
SetupAkshare(env, proxy_config) ==
    IF proxy_config # None /\ DOMAIN proxy_config # {}
    THEN [key \in DOMAIN env
              \cup {IF k = "http" THEN "HTTP_PROXY" ELSE "HTTPS_PROXY" :
                       k \in DOMAIN proxy_config} |->
            IF key = "HTTP_PROXY" /\ "http" \in DOMAIN proxy_config
            THEN proxy_config.http
            ELSE IF key = "HTTPS_PROXY" /\ "https" \in DOMAIN proxy_config
            THEN proxy_config.https
            ELSE env[key]]
    ELSE [key \in DOMAIN env \ {"HTTP_PROXY", "HTTPS_PROXY", "http_proxy",
                                "https_proxy"} |-> env[key]]

\* lines 352-368 of NetworkClient.__init__: the shared configuration after
\* the arguments are written into it
ConfigWithArguments(config, mode, proxy_url, timeout, retry) ==
    [config EXCEPT
        !.mode = IF mode # Str("auto") THEN mode ELSE @,
        !.proxy = IF ~Truthy(proxy_url) THEN @
                  ELSE IF StartsWith(proxy_url.s,
                                     <<115, 111, 99, 107, 115, 53, 58, 47, 47>>)
                  THEN [@ EXCEPT !.socks5 = proxy_url]          \* socks5://
                  ELSE [@ EXCEPT !.http = proxy_url, !.https = proxy_url],
        !.timeout = IF timeout # None /\ timeout.v # 0 THEN timeout.v ELSE @,
        !.retry = IF retry # None /\ retry.v # 0 THEN retry.v ELSE @]

\* retry_on_error lines 172-176: max_retries, the retry count of the
\* configuration when the argument is None
RetryLimit(max_retries, config) ==
    IF max_retries = None THEN config.retry ELSE max_retries.v

\* the wrapper when its call begins, line 181; range(max_retries + 1) empty
\* leaves nothing to invoke and `raise last_error` raises a TypeError for
\* the None it holds
StartWrapper(max_retries) ==
    [max_retries |-> max_retries, attempt |-> 0, last_error |-> None,
     outcomes |-> <<>>,
     status |-> IF max_retries + 1 > 0 THEN "running" ELSE "raised",
     value |-> IF max_retries + 1 > 0 THEN None ELSE Str("TypeError")]

\* the wrapper retries after every listed exception, the last one included
AfterListedError_RetryOnceMore(w, error) ==
    LET seen == [w EXCEPT !.last_error = error,
                          !.outcomes = Append(@, [raised |-> error])]
    IN  IF w.attempt <= w.max_retries
        THEN [seen EXCEPT !.attempt = @ + 1]
        ELSE [seen EXCEPT !.status = "raised", !.value = error]

\* lines 185-192: the invocation raised a listed exception; the wrapper
\* sleeps and goes on with the next attempt, or after the last attempt
\* raises last_error
AfterListedError(w, error) ==
    LET seen == [w EXCEPT !.last_error = error,
                          !.outcomes = Append(@, [raised |-> error])]
    IN  IF w.attempt < w.max_retries
        THEN [seen EXCEPT !.attempt = @ + 1]
        ELSE [seen EXCEPT !.status = "raised", !.value = error]

\* line 184: the invocation returned
AfterReturn(w, result) ==
    [w EXCEPT !.outcomes = Append(@, [returned |-> result]),
              !.status = "returned", !.value = result]

\* the invocation raised an exception that is not listed: it leaves the
\* wrapper as it is
AfterOtherError(w, error) ==
    [w EXCEPT !.outcomes = Append(@, [raised |-> error]),
              !.status = "raised", !.value = error]

(***************************************************************************)
(* NetworkClient constructed any number of times in one process            *)
(***************************************************************************)
\* the proxy addresses an argument or a variable gives
HttpProxy ==       \* "http://127.0.0.1:7890"
    Str(<<104, 116, 116, 112, 58, 47, 47, 49, 50, 55, 46, 48, 46, 48, 46, 49,
          58, 55, 56, 57, 48>>)
Socks5Proxy ==     \* "socks5://127.0.0.1:1080"
    Str(<<115, 111, 99, 107, 115, 53, 58, 47, 47, 49, 50, 55, 46, 48, 46, 48,
          46, 49, 58, 49, 48, 56, 48>>)

\* os.environ when the module is imported: NET_MODE and HTTP_PROXY set or
\* not
Environments ==
    {MkDict([NET_MODE |-> mode, HTTP_PROXY |-> http]) :
        mode \in {Absent, Str("direct"), Str("proxy")},
        http \in {Absent, HttpProxy}}

\* the import of network_client: the decorators of AkShareWrapper call
\* get_config(), which creates the shared configuration
InitNetwork ==
    /\ benchmarks = INDUSTRY_BENCHMARKS
    /\ sw_mapping = SW_INDUSTRY_MAPPING
    /\ round_up = [s \in TieSites |-> FALSE]
    /\ bench = NoCall
    /\ cur = NoCall
    /\ metrics = EmptyDict
    /\ security = NoCall
    /\ edits = 0
    /\ classified = NoCall
    /\ matches = NoCall
    /\ health = NoCall
    /\ industry = NoCall
    /\ income = NoCall
    /\ balance = NoCall
    /\ cashflow = NoCall
    /\ advanced = NoCall
    /\ environ \in Environments
    /\ global_config = NetworkConfig(environ)
    /\ client = NoCall
    /\ wrapper = NoCall

\* NetworkClient(mode, proxy_url, timeout, retry); domestic_ok is what the
\* network answers if it is probed
NewNetworkClient ==
    /\ \E mode \in {Str("auto"), Str("direct"), Str("proxy")},
          proxy_url \in {None, HttpProxy, Socks5Proxy},
          timeout \in {None, Num(10)},
          retry \in {None, Num(0), Num(1)},
          domestic_ok \in BOOLEAN :
          LET given == ConfigWithArguments(global_config, mode, proxy_url,
                                           timeout, retry)
              detects == given.mode = Str("auto")
              detected_mode == detect_network_mode(domestic_ok)
              config == IF detects
                        THEN [given EXCEPT !.mode = detected_mode]
                        ELSE given
              proxy_config == get_proxy_config(config)
          IN  /\ global_config' = config
              /\ environ' = IF proxy_config = RecursionError THEN environ
                            ELSE SetupAkshare(environ, proxy_config)
              /\ client' =
                    IF proxy_config = RecursionError THEN RecursionError
                    ELSE [mode |-> mode,
                          detected_mode |-> IF detects THEN detected_mode
                                            ELSE None,
                          network_mode |-> config.mode,
                          proxies |-> proxy_config]
    /\ UNCHANGED <<wrapper,
                   income, balance, cashflow, advanced,
                   benchmarks, sw_mapping, round_up, bench, cur, metrics,
                   security, edits, classified, matches, health, industry>>

NextNetwork == NewNetworkClient

SpecNetwork == InitNetwork /\ [][NextNetwork]_vars

(***************************************************************************)
(* A function wrapped by retry_on_error, called any number of times        *)
(***************************************************************************)
\* the largest max_retries argument tried
MaxRetries == 2

\* the exceptions argument lists Exception: these are retried
ListedErrors == {Str("ConnectionError"), Str("ValueError")}

\* exceptions that are no Exception
OtherErrors == {Str("KeyboardInterrupt")}

\* what the wrapped function returns
Results == {Num(1), Num(2)}

\* the import of network_client with NET_RETRY set or not
InitRetry ==
    /\ benchmarks = INDUSTRY_BENCHMARKS
    /\ sw_mapping = SW_INDUSTRY_MAPPING
    /\ round_up = [s \in TieSites |-> FALSE]
    /\ bench = NoCall
    /\ cur = NoCall
    /\ metrics = EmptyDict
    /\ security = NoCall
    /\ edits = 0
    /\ classified = NoCall
    /\ matches = NoCall
    /\ health = NoCall
    /\ industry = NoCall
    /\ income = NoCall
    /\ balance = NoCall
    /\ cashflow = NoCall
    /\ advanced = NoCall
    /\ environ \in {MkDict([NET_RETRY |-> retry]) :
                        retry \in {Absent, Str(<<49>>), Str(<<52>>)}}
    /\ global_config = NetworkConfig(environ)
    /\ client = NoCall
    /\ wrapper = NoCall

\* retry_on_error(max_retries)(func)(...): the call of the wrapper begins
CallWrapped ==
    /\ IF wrapper = NoCall THEN TRUE ELSE wrapper.status # "running"
    /\ \E max_retries \in {None} \cup {Num(n) : n \in -1..MaxRetries} :
          wrapper' = StartWrapper(RetryLimit(max_retries, global_config))
    /\ UNCHANGED <<global_config, environ, client,
                   income, balance, cashflow, advanced,
                   benchmarks, sw_mapping, round_up, bench, cur, metrics,
                   security, edits, classified, matches, health, industry>>

\* one pass of the loop: func is invoked and returns or raises
Invoke ==
    /\ wrapper # NoCall
    /\ wrapper.status = "running"
    /\ \/ \E result \in Results : wrapper' = AfterReturn(wrapper, result)
       \/ \E error \in ListedErrors :
             wrapper' = AfterListedError(wrapper, error)
       \/ \E error \in OtherErrors :
             wrapper' = AfterOtherError(wrapper, error)
    /\ UNCHANGED <<global_config, environ, client,
                   income, balance, cashflow, advanced,
                   benchmarks, sw_mapping, round_up, bench, cur, metrics,
                   security, edits, classified, matches, health, industry>>

NextRetry == CallWrapped \/ Invoke

\* an invocation that has begun ends: the wrapped function terminates and
\* time.sleep returns
SpecRetry == InitRetry /\ [][NextRetry]_vars /\ WF_vars(Invoke)

(***************************************************************************)
(* Properties of calculate_metric_score (SpecMetric)                       *)
(***************************************************************************)
\* a call has been made with a number
Scored == cur # NoCall /\ cur.value # None

Width == bench.max - bench.min
InRange(v) == bench.min <= v /\ v <= bench.max

\* the score of v against the benchmark under test
ScoreOf(v) == MetricScore(v, bench.min, bench.max, bench.ideal, round_up)

\* C3: for every number and every benchmark with min <= max, zero and
\* negative bounds and the defaults included, the score lies in 0 .. 100
C3_ScoreWithin0To100 ==
    Scored => (0 <= cur.score /\ cur.score <= 10000)

\* C4: with max - min > 0, a value outside the range scores strictly lower
\* than the range boundary nearest to it (stated for the benchmarks with
\* positive bounds and ideal inside the range, as all those of the table
\* are)
C4_OutOfRangeBelowBoundary ==
    (Scored /\ Width > 0 /\ bench.min > 0 /\ InRange(bench.ideal)) =>
        /\ cur.value.v < bench.min => cur.score < ScoreOf(bench.min)
        /\ cur.value.v > bench.max => cur.score < ScoreOf(bench.max)

FartherInRange ==
    {x \in MetricValues(bench) \ {None} :
        /\ InRange(x.v)
        /\ Abs(cur.value.v - bench.ideal) < Abs(x.v - bench.ideal)}

\* C6 as stated: inside the range of a benchmark with max - min > 0 the score
\* strictly decreases as |value - ideal| increases
C6_StrictlyDecreasing ==
    (Scored /\ Width > 0 /\ InRange(cur.value.v)) =>
        \A x \in FartherInRange : cur.score > ScoreOf(x.v)

\* C6 amended: inside the range the score never increases as |value - ideal|
\* increases (two values at different distances score the same when both
\* are clamped to 0 or round to the same hundredth)
C6_NeverIncreasing ==
    (Scored /\ Width > 0 /\ InRange(cur.value.v)) =>
        \A x \in FartherInRange : cur.score >= ScoreOf(x.v)

\* C6 witness: an in-range value scored, with a farther in-range value that
\* scores strictly lower
C6_Witness ==
    /\ Scored /\ Width > 0 /\ InRange(cur.value.v)
    /\ \E x \in FartherInRange : cur.score > ScoreOf(x.v)

\* C7: with max - min > 0 and ideal inside [min, max], the score at
\* value = ideal is exactly 100
C7_ScoreAtIdealIs100 ==
    (Scored /\ Width > 0 /\ InRange(bench.ideal)
        /\ cur.value.v = bench.ideal) => cur.score = 10000

\* C7 witness: ideal scored against a benchmark of positive width whose ideal
\* is not the midpoint
C7_Witness ==
    /\ Scored /\ Width > 0 /\ InRange(bench.ideal)
    /\ 2 * bench.ideal # bench.min + bench.max
    /\ cur.value.v = bench.ideal

\* C8: for every d with ideal + d and ideal - d both inside [min, max], the
\* two values score the same
C8_SymmetricAroundIdeal ==
    (Scored /\ InRange(cur.value.v)
        /\ InRange(2 * bench.ideal - cur.value.v)) =>
        cur.score = ScoreOf(2 * bench.ideal - cur.value.v)

(***************************************************************************)
(* Properties of calculate_health_score_v2 (SpecHealth)                    *)
(***************************************************************************)
DimensionScores(h) ==
    <<h.dimensions.profitability.score, h.dimensions.solvency.score,
      h.dimensions.efficiency.score, h.dimensions.growth.score,
      h.dimensions.cashflow.score>>

\* C1 as stated: the sample input scores 25, 25, 5, 12, 0 and 67 in total
C1_SampleScoresAsStated ==
    (health # NoCall /\ metrics = SampleMetrics) =>
        /\ DimensionScores(health) = <<25, 25, 5, 12, 0>>
        /\ health.total_score = 67

\* C1 amended: {roe: 25.18, debt_ratio: 12.81, asset_turnover: 0.43,
\* net_profit_margin: 51.11, ocf_to_np: 57.1} scores profitability 25,
\* solvency 25, efficiency 5, growth 12, cashflow 15 (57.1 > 1.2) and
\* total_score 82
C1_SampleScores ==
    (health # NoCall /\ metrics = SampleMetrics) =>
        /\ DimensionScores(health) = <<25, 25, 5, 12, 15>>
        /\ health.total_score = 82

\* C1 witness: the sample input has been scored
C1_Witness == health # NoCall /\ metrics = SampleMetrics

\* the solvency table: <40 gives 25, <50 gives 20, <60 gives 15, <70 gives
\* 10, otherwise 5
SolvencyTable(debt_ratio) ==
    CASE debt_ratio < 4000 -> 25
      [] debt_ratio >= 4000 /\ debt_ratio < 5000 -> 20
      [] debt_ratio >= 5000 /\ debt_ratio < 6000 -> 15
      [] debt_ratio >= 6000 /\ debt_ratio < 7000 -> 10
      [] debt_ratio >= 7000 -> 5

\* C9: the solvency score follows the table for every debt_ratio present as
\* a number, 0 included (25 points); only a missing one is scored as 100
C9_SolvencyFollowsTable ==
    health # NoCall =>
        health.dimensions.solvency.score =
            IF Get(metrics, "debt_ratio") = None
            THEN SolvencyTable(10000)
            ELSE SolvencyTable(Get(metrics, "debt_ratio").v)

\* the points of the first threshold of table that x strictly exceeds, else
\* when it exceeds none; table is a sequence of <<threshold, points>>
FirstExceeded(x, table, else) ==
    IF \E i \in 1 .. Len(table) : x > table[i][1]
    THEN table[CHOOSE i \in 1 .. Len(table) :
                  /\ x > table[i][1]
                  /\ \A j \in 1 .. (i - 1) : ~(x > table[j][1])][2]
    ELSE else

\* the driving metric, a missing or None one read as 0
Driving(key) ==
    IF Get(metrics, key) = None THEN 0 ELSE Get(metrics, key).v

\* C10: profitability, efficiency, growth and cashflow equal the table value
\* of the first threshold the driving metric strictly exceeds (missing or
\* None read as 0), no dimension exceeds its declared max, and total_score
\* is the sum of the five dimension scores
C10_ThresholdTables ==
    health # NoCall =>
        LET d == health.dimensions
        IN  /\ d.profitability.score = FirstExceeded(Driving("roe"),
                  <<<<1500, 25>>, <<1000, 20>>, <<500, 15>>, <<0, 10>>>>, 0)
            /\ d.efficiency.score = FirstExceeded(Driving("asset_turnover"),
                  <<<<100, 20>>, <<70, 15>>, <<50, 10>>, <<30, 5>>>>, 0)
            /\ d.growth.score = FirstExceeded(Driving("net_profit_margin"),
                  <<<<1000, 12>>, <<500, 8>>>>, 5)
            /\ d.cashflow.score = FirstExceeded(Driving("ocf_to_np"),
                  <<<<120, 15>>, <<100, 12>>, <<80, 8>>, <<50, 4>>,
                    <<0, 2>>>>, 0)
            /\ <<d.profitability.max, d.solvency.max, d.efficiency.max,
                 d.growth.max, d.cashflow.max>> = <<25, 25, 20, 15, 15>>
            /\ \A n \in DimensionNames : d[n].score <= d[n].max
            /\ health.total_score =
                  d.profitability.score + d.solvency.score
                      + d.efficiency.score + d.growth.score + d.cashflow.score

\* C10 witness: a dict with roe missing, asset_turnover None and the other
\* driving metrics above their lowest threshold has been scored
C10_Witness ==
    /\ health # NoCall
    /\ "roe" \notin DOMAIN metrics
    /\ "asset_turnover" \in DOMAIN metrics /\ metrics.asset_turnover = None
    /\ Driving("net_profit_margin") > 500
    /\ Driving("ocf_to_np") > 0

(***************************************************************************)
(* Properties of calculate_industry_adjusted_score (SpecIndustry)          *)
(***************************************************************************)
\* C2: for every metrics dict and every security, normalized_score lies in
\* 0 .. 100, also when the x0.8 or the x1.1 adjustment is applied
C2_NormalizedScoreWithin0To100 ==
    industry # NoCall =>
        (0 <= industry.normalized_score /\ industry.normalized_score <= 10000)

\* the risk_class that names each risk_level
RiskClassOf(risk_level) ==
    CASE risk_level = "difengxian" -> "low"
      [] risk_level = "zhongdifengxian" -> "medium-low"
      [] risk_level = "zhongdengfengxian" -> "medium"
      [] risk_level = "zhonggaofengxian" -> "medium-high"
      [] risk_level = "gaofengxian" -> "high"

\* C11: for every score s the generic scorer gives total_score = s the
\* risk_level the industry scorer gives normalized_score = s, with the cut
\* points 80, 60, 40 and 20; the tier returned by
\* calculate_industry_adjusted_score is the one of its normalized_score,
\* and its risk_class names its risk_level
C11_SameRiskTiers ==
    /\ \A s \in 0 .. 100 :
          HealthRiskLevel(s) = IndustryRisk(100 * s).risk_level
    /\ industry # NoCall =>
          /\ industry.risk_level =
                 (IF industry.normalized_score >= 8000 THEN "difengxian"
                  ELSE IF industry.normalized_score >= 6000
                       THEN "zhongdifengxian"
                  ELSE IF industry.normalized_score >= 4000
                       THEN "zhongdengfengxian"
                  ELSE IF industry.normalized_score >= 2000
                       THEN "zhonggaofengxian"
                  ELSE "gaofengxian")
          /\ industry.normalized_score % 100 = 0 =>
                 industry.risk_level =
                     HealthRiskLevel(industry.normalized_score \div 100)
          /\ industry.risk_class = RiskClassOf(industry.risk_level)

\* C11 witness: a result whose normalized_score is a whole number in one of
\* the middle tiers
C11_Witness ==
    /\ industry # NoCall
    /\ industry.normalized_score % 100 = 0
    /\ industry.normalized_score >= 2000
    /\ industry.normalized_score < 8000

\* the dict m without key
Remove(m, key) == [k \in DOMAIN m \ {key} |-> m[k]]

\* the benchmarks of the industry the result was computed for
BenchmarksOf(result) == get_industry_info(result.industry.id).metrics

\* result without is what result with becomes once the metric of benchmark c
\* drops out: max_score falls by 100 * weight, only the entry of c leaves
\* dimension_scores, the other entries keep score, weighted_score and rating
DroppedOnly(c, with, without) ==
    /\ without.max_score = with.max_score - 100 * c.weight
    /\ DOMAIN without.dimension_scores =
          DOMAIN with.dimension_scores \ {c.name}
    /\ \A name \in DOMAIN without.dimension_scores :
          /\ name \in DOMAIN with.dimension_scores
          /\ without.dimension_scores[name].score =
                with.dimension_scores[name].score
          /\ without.dimension_scores[name].weighted_score =
                with.dimension_scores[name].weighted_score
          /\ without.dimension_scores[name].rating =
                with.dimension_scores[name].rating

NothingResolvable(result) ==
    \A c \in Range(BenchmarksOf(result)) :
        \A key \in {c.name} \cup Range(Aliases(c.name)) :
            key \in DOMAIN metrics => metrics[key] \in {None, Text}

\* C13: when no benchmarked metric of the classified industry resolves to a
\* number (empty dict, only None, only non-numeric values) the call returns
\* empty dimension_scores, max_score 0, normalized_score 0 and risk_level
\* 高风险
C13_NothingResolvedScoresZero ==
    (industry # NoCall /\ NothingResolvable(industry)) =>
        /\ DOMAIN industry.dimension_scores = {}
        /\ industry.max_score = 0
        /\ industry.normalized_score = 0
        /\ industry.risk_level = "gaofengxian"

\* C13 witness: a result for a dict that is not empty and holds ocf_to_np as
\* None or as text, nothing in it resolvable
C13_Witness ==
    /\ industry # NoCall
    /\ NothingResolvable(industry)
    /\ "ocf_to_np" \in DOMAIN metrics
    /\ \E c \in Range(BenchmarksOf(industry)) : c.name = "ocf_to_np"

(***************************************************************************)
(* Properties of IndustryClassifier.classify (SpecClassify)                *)
(***************************************************************************)
\* the code as the code rules read it: stripped and padded to six characters
NormalCode == ZFill(Strip(security.stock_code.s), 6)

\* the sector tag is a key of the lookup table
TagIsKey ==
    /\ security.sw_industry # None
    /\ \E i \in 1 .. Len(SW_INDUSTRY_MAPPING) :
          SW_INDUSTRY_MAPPING[i][1] = security.sw_industry.s

\* the industry the lookup table maps the sector tag to
TagIndustry ==
    SW_INDUSTRY_MAPPING[CHOOSE i \in 1 .. Len(SW_INDUSTRY_MAPPING) :
        SW_INDUSTRY_MAPPING[i][1] = security.sw_industry.s][2]

\* the industries that list the code as an example / hold a pattern that is
\* a prefix of the code
ExampleOf ==
    {id \in Range(IndustryIds) :
        NormalCode \in Range(INDUSTRY_BENCHMARKS[id].stock_examples)}
PatternOf ==
    {id \in Range(IndustryIds) :
        /\ INDUSTRY_BENCHMARKS[id].has_patterns
        /\ \E p \in Range(INDUSTRY_BENCHMARKS[id].stock_patterns) :
              StartsWith(NormalCode, p)}

\* one of the fixed prefixes 688, 300, 8, 4 begins the code
FixedPrefix ==
    \E p \in {<<54, 56, 56>>, <<51, 48, 48>>, <<56>>, <<52>>} :
        StartsWith(NormalCode, p)

CodeRuleApplies == FixedPrefix \/ ExampleOf # {} \/ PatternOf # {}

\* the industries one of whose keywords occurs in the name
KeywordOf ==
    IF security.company_name = None THEN {}
    ELSE {id \in Range(IndustryIds) :
             \E k \in Range(INDUSTRY_BENCHMARKS[id].keywords) :
                 Contains(Lower(security.company_name.s), Lower(k))}

\* C14: for every code string, every name (a string or absent) and every
\* sector tag (a key of the lookup table or not, or absent) classify returns
\* one of the 12 industry ids of the benchmark table, and manufacturing when
\* no sector, code or name rule applies
C14_ClassifyIsTotal ==
    classified # NoCall =>
        /\ classified.s \in Range(IndustryIds)
        /\ Len(IndustryIds) = 12
        /\ (~TagIsKey /\ ~CodeRuleApplies /\ KeywordOf = {}) =>
              classified.s = "manufacturing"

\* C14 witness: a security classified with a sector tag that is no key, a
\* code that is not numeric and a name without keyword
C14_Witness ==
    /\ classified # NoCall
    /\ security.sw_industry # None /\ security.sw_industry.s # <<>>
    /\ ~TagIsKey /\ ~CodeRuleApplies /\ KeywordOf = {}
    /\ security.stock_code.s = <<97, 98, 99>>
    /\ security.company_name # None /\ security.company_name.s # <<>>

\* C15: whenever the sector tag is a key of the lookup table, classify
\* returns the industry the table maps it to, whatever the code and the name
\* are, tags mapped to manufacturing included
C15_SectorTagHasPriority ==
    (classified # NoCall /\ TagIsKey) => classified.s = TagIndustry

\* the first industry of the table among ids
FirstOf(ids) ==
    IndustryIds[CHOOSE i \in 1 .. Len(IndustryIds) :
        /\ IndustryIds[i] \in ids
        /\ \A j \in 1 .. (i - 1) : IndustryIds[j] \notin ids]

\* C16: with no sector tag the code decides by the first applicable rule:
\* prefix 688 technology, prefix 300 technology, prefix 8 or 4 manufacturing,
\* member of an industry's example list that industry, prefix match of an
\* industry's pattern list that industry; so a code of an industry's example
\* list classifies to that industry even when a pattern of another industry
\* matches it
C16_CodeRulesInOrder ==
    (classified # NoCall /\ security.sw_industry = None /\ CodeRuleApplies) =>
        /\ classified.s =
              (IF StartsWith(NormalCode, <<54, 56, 56>>) THEN "technology"
               ELSE IF StartsWith(NormalCode, <<51, 48, 48>>) THEN "technology"
               ELSE IF StartsWith(NormalCode, <<56>>)
                       \/ StartsWith(NormalCode, <<52>>) THEN "manufacturing"
               ELSE IF ExampleOf # {} THEN FirstOf(ExampleOf)
               ELSE FirstOf(PatternOf))
        /\ \A id \in Range(IndustryIds) :
              \A example \in Range(INDUSTRY_BENCHMARKS[id].stock_examples) :
                  classify_by_stock_code(example) = Str(id)

\* C16 witness: a code classified that is an example of one industry and is
\* matched by a pattern of another, with no sector tag
C16_Witness ==
    /\ classified # NoCall /\ security.sw_industry = None
    /\ ~FixedPrefix
    /\ \E a \in ExampleOf : \E b \in PatternOf : a # b /\ classified.s = a

\* the name is of a security that neither a sector tag nor a code rule
\* classifies
DecidedByName ==
    /\ classified # NoCall
    /\ security.sw_industry = None
    /\ ~CodeRuleApplies

\* the points of the name for industry id: 1 per keyword it contains and 2
\* more per keyword it equals or begins with; the confidence is the points
\* divided by the number of keywords of the industry
NamePoints(id) ==
    LET name == Lower(security.company_name.s)
        keywords == INDUSTRY_BENCHMARKS[id].keywords
    IN  Cardinality({i \in 1 .. Len(keywords) :
                        Contains(name, Lower(keywords[i]))})
        + 2 * Cardinality({i \in 1 .. Len(keywords) :
                              StartsWith(name, Lower(keywords[i]))})

\* the position of industry id in the table
TableIndex(id) == CHOOSE i \in 1 .. Len(IndustryIds) : IndustryIds[i] = id

\* industry a has a higher confidence than b, or the same and an earlier
\* place in the table
Beats(a, b) ==
    LET left == NamePoints(a) * Len(INDUSTRY_BENCHMARKS[b].keywords)
        right == NamePoints(b) * Len(INDUSTRY_BENCHMARKS[a].keywords)
    IN  left > right \/ (left = right /\ TableIndex(a) < TableIndex(b))

\* C17 as stated: for every code that no code rule matches, with no sector
\* tag, a name that contains at least one keyword of the consumer industry
\* classifies as consumer
C17_ConsumerKeywordGivesConsumer ==
    (DecidedByName /\ "consumer" \in KeywordOf) => classified.s = "consumer"

\* C17 amended: for such a code and name classify returns the industry of
\* highest confidence among those with a keyword in the name, the earlier in
\* the table on a tie; it returns consumer exactly when consumer beats every
\* other industry with a keyword in the name
C17_BestKeywordIndustry ==
    (DecidedByName /\ "consumer" \in KeywordOf) =>
        /\ classified.s \in KeywordOf
        /\ \A other \in KeywordOf \ {classified.s} :
              Beats(classified.s, other)
        /\ (classified.s = "consumer") =
              (\A other \in KeywordOf \ {"consumer"} :
                  Beats("consumer", other))

\* C17 witness: a name with keywords of consumer and of another industry
\* classified as consumer
C17_Witness ==
    /\ DecidedByName
    /\ "consumer" \in KeywordOf /\ KeywordOf # {"consumer"}
    /\ classified.s = "consumer"

\* the industries of highest confidence for the name
BestByName ==
    {id \in KeywordOf :
        \A other \in KeywordOf :
            NamePoints(other) * Len(INDUSTRY_BENCHMARKS[id].keywords)
                <= NamePoints(id) * Len(INDUSTRY_BENCHMARKS[other].keywords)}

\* C23: when the name decides and several industries attain the same highest
\* positive score, classify returns the one declared earliest in the
\* benchmark table; the name step never returns an industry of score 0
C23_TieGoesToEarliestIndustry ==
    (DecidedByName /\ KeywordOf # {}) =>
        /\ classified.s = FirstOf(BestByName)
        /\ NamePoints(classified.s) > 0

\* C23 witness: two industries tie for the highest score and the earlier of
\* the table is returned
C23_Witness ==
    /\ DecidedByName
    /\ Cardinality(BestByName) > 1
    /\ classified.s = FirstOf(BestByName)
    /\ \E other \in BestByName : TableIndex(classified.s) < TableIndex(other)

Penalised(result) ==
    \E i \in 1 .. Len(result.adjustment_notes) :
        result.adjustment_notes[i] = "cashflow_deteriorated"

\* C19: the cashflow penalty (note and factor 0.8) is applied exactly when
\* the industry has cashflow_critical and ocf_to_np holds a number below
\* 0.5; with ocf_to_np absent or None the adjustment_factor and the
\* normalized_score are those of the call without the key
C19_PenaltyOnlyOnNumberBelowHalf ==
    (industry # NoCall /\ Get(metrics, "ocf_to_np") # Text) =>
        LET value == Get(metrics, "ocf_to_np")
            special_rules ==
                get_industry_info(industry.industry.id).special_rules
            without == ScoreInIndustry(Remove(metrics, "ocf_to_np"),
                                       industry.industry.id, round_up)
        IN  /\ Penalised(industry) <=>
                  /\ RuleSet(special_rules, "cashflow_critical")
                  /\ value # None
                  /\ value.v < 50
            /\ Penalised(industry) <=>
                  industry.adjustment_factor \in {80, 88}
            /\ value = None =>
                  /\ industry.adjustment_factor = without.adjustment_factor
                  /\ industry.normalized_score = without.normalized_score

(***************************************************************************)
(* Properties of calculate_advanced_metrics (SpecAdvanced)                 *)
(***************************************************************************)
\* the derived ratios: key, numerator scaled to hundredths, denominator, and
\* whether the statements the ratio is computed from were given
DerivedRatios(d, cf) ==
    {[key |-> "gross_margin", num |-> (d.revenue - d.cost) * 10000,
      den |-> d.revenue, given |-> TRUE],
     [key |-> "operating_margin", num |-> d.operating_profit * 10000,
      den |-> d.revenue, given |-> TRUE],
     [key |-> "roe", num |-> d.net_profit * 10000, den |-> d.equity,
      given |-> TRUE],
     [key |-> "roa", num |-> d.net_profit * 10000, den |-> d.total_assets,
      given |-> TRUE],
     [key |-> "current_ratio", num |-> d.current_assets * 100,
      den |-> d.current_liabilities, given |-> TRUE],
     [key |-> "quick_ratio", num |-> (d.current_assets - d.inventory) * 100,
      den |-> d.current_liabilities, given |-> TRUE],
     [key |-> "equity_multiplier", num |-> d.total_assets * 100,
      den |-> d.equity, given |-> TRUE],
     [key |-> "asset_turnover", num |-> d.revenue * 100,
      den |-> d.total_assets, given |-> TRUE],
     [key |-> "ocf_to_np", num |-> d.operating_cf * 10000,
      den |-> d.net_profit, given |-> HasCashflow(cf)]}

\* C20: each derived ratio of calculate_advanced_metrics equals its formula
\* when the denominator of the formula is not zero, a zero numerator and a
\* negative denominator included, and is None exactly when the denominator
\* is zero
C20_RatiosFollowFormulas ==
    advanced # NoCall =>
        \A r \in DerivedRatios(BaseData(income, balance, cashflow), cashflow) :
            r.given =>
                Get(advanced, r.key) =
                    IF r.den # 0
                    THEN Num(Quotient(r.num, r.den, round_up["derived"]))
                    ELSE None

(***************************************************************************)
(* Properties of the industry comparison (SpecIndustry)                    *)
(***************************************************************************)
\* C21: industry_comparison has an entry for a benchmarked metric exactly
\* when the metric has a resolved value (it is in dimension_scores, also
\* when the value came under an alias) and its ideal is not zero; the status
\* of an entry is at when |diff_pct| <= 10, else above for diff > 0 and below
\* for diff < 0
C21_ComparisonCoversResolvedMetrics ==
    (industry # NoCall /\ \A key \in DOMAIN metrics : metrics[key] # Text) =>
        \A c \in Range(BenchmarksOf(industry)) :
            /\ c.name \in DOMAIN industry.industry_comparison <=>
                  (c.name \in DOMAIN industry.dimension_scores /\ c.ideal # 0)
            /\ c.name \in DOMAIN industry.industry_comparison =>
                  LET entry == industry.industry_comparison[c.name]
                  IN  entry.status =
                          IF Abs(entry.difference_pct) <= 1000 THEN "at"
                          ELSE IF entry.difference > 0 THEN "above"
                          ELSE "below"

(***************************************************************************)
(* Properties of the alias resolution (SpecIndustry)                       *)
(***************************************************************************)
\* the aliases of metric_name under which m holds a value that is not None,
\* as positions in the alias list
AliasesHeld(m, metric_name) ==
    {i \in 1 .. Len(Aliases(metric_name)) :
        /\ Aliases(metric_name)[i] \in DOMAIN m
        /\ m[Aliases(metric_name)[i]] # None}

\* C22: the value scored for a metric is the one under the first alias, in
\* the order of the metric's alias list, that is present with a value other
\* than None, also when a later alias holds a different value
C22_FirstAliasWins ==
    (industry # NoCall /\ \A key \in DOMAIN metrics : metrics[key] # Text) =>
        \A c \in Range(BenchmarksOf(industry)) :
            AliasesHeld(metrics, c.name) # {} =>
                /\ c.name \in DOMAIN industry.dimension_scores
                /\ industry.dimension_scores[c.name].value =
                      metrics[Aliases(c.name)[SetMin(AliasesHeld(metrics,
                                                                 c.name))]]

(***************************************************************************)
(* Properties of the recommendations (SpecIndustry)                        *)
(***************************************************************************)
\* the sentences of the recommendations of the result
Sentences(result) ==
    {result.recommendations[i].text : i \in 1 .. Len(result.recommendations)}

BaseSentences ==
    {"base_low", "base_medium-low", "base_medium", "base_medium-high",
     "base_high"}

\* C24: the recommendations start with the one base sentence of the
\* risk_level and hold no other base sentence; the high-debt sentence is
\* there only when the high-debt adjustment note is (debt_tolerance high and
\* debt_ratio > 70), the cashflow sentence only when ocf_to_np was scored
\* and its score is below 40
C24_SentencesOnlyForTriggeredRules ==
    industry # NoCall =>
        /\ industry.recommendations[1].text = "base_" \o industry.risk_class
        /\ \A i \in 2 .. Len(industry.recommendations) :
              industry.recommendations[i].text \notin BaseSentences
        /\ "high_debt_is_normal" \in Sentences(industry) =>
              \E i \in 1 .. Len(industry.adjustment_notes) :
                  industry.adjustment_notes[i] = "high_debt_normal"
        /\ "watch_cashflow" \in Sentences(industry) =>
              /\ "ocf_to_np" \in DOMAIN industry.dimension_scores
              /\ industry.dimension_scores["ocf_to_np"].score < 4000

(***************************************************************************)
(* Properties of NetworkClient (SpecNetwork)                               *)
(***************************************************************************)
\* C25: a NetworkClient constructed with mode auto has run the network
\* detection and ends with the mode it detected, whatever clients were
\* constructed before it in the process (NET_MODE not being set)
C25_AutoClientDetects ==
    (client # NoCall /\ "NET_MODE" \notin DOMAIN environ
        /\ client.mode = Str("auto")) =>
        /\ client.detected_mode # None
        /\ client.network_mode = client.detected_mode

(***************************************************************************)
(* Properties of retry_on_error (SpecRetry)                                *)
(***************************************************************************)
\* the invocations i..j of the call all raised a listed exception
AllListed(w, i, j) ==
    \A k \in i..j : /\ "raised" \in DOMAIN w.outcomes[k]
                    /\ w.outcomes[k].raised \in ListedErrors

\* the state part of C26
RetryIsBounded ==
    wrapper # NoCall =>
        LET n == wrapper.max_retries
            k == Len(wrapper.outcomes)
        IN  /\ k <= n + 1
            /\ wrapper.status = "returned" =>
                  /\ k >= 1
                  /\ wrapper.outcomes[k] = [returned |-> wrapper.value]
                  /\ AllListed(wrapper, 1, k - 1)
            /\ (k = n + 1 /\ k >= 1 /\ AllListed(wrapper, 1, k)) =>
                  /\ wrapper.status = "raised"
                  /\ wrapper.value = wrapper.outcomes[k].raised

\* once the wrapper has returned or raised, the call invokes nothing more:
\* the next thing to happen is another call
NothingAfterTheEnd ==
    (wrapper # NoCall /\ wrapper.status # "running") =>
        wrapper'.outcomes = <<>>

\* a call of the wrapper is running
Running == wrapper # NoCall /\ wrapper.status = "running"

\* C26: per call the wrapped function is invoked at most max_retries + 1
\* times; the wrapper returns the result of the first invocation that
\* succeeds and invokes nothing after it; when all max_retries + 1
\* invocations raise a listed exception it raises the last of them; and
\* every call of the wrapper ends
C26_RetryIsBoundedAndEnds ==
    /\ []RetryIsBounded
    /\ [][NothingAfterTheEnd]_vars
    /\ Running ~> ~Running

\* all invocations of a call with at least one retry failed and the last
\* exception was raised
C26_Witness ==
    /\ wrapper # NoCall
    /\ wrapper.max_retries >= 1
    /\ Len(wrapper.outcomes) = wrapper.max_retries + 1
    /\ AllListed(wrapper, 1, Len(wrapper.outcomes))
    /\ wrapper.status = "raised"

(***************************************************************************)
(* Properties of the adjustment factor (SpecIndustry)                      *)
(***************************************************************************)
\* the notes of the result without the high debt note
FactorNotes ==
    SelectSeq(industry.adjustment_notes, LAMBDA n : n # "high_debt_normal")

\* C27: adjustment_factor is 1.0, 0.8 or 1.1: no industry of the table has
\* both cashflow_critical and high_rd_bonus, so the two factors are never
\* multiplied, and the high debt rule adds its note without changing the
\* factor
C27_FactorIsOneOfThree ==
    /\ \A id \in DOMAIN benchmarks :
          ~ (/\ RuleSet(benchmarks[id].special_rules, "cashflow_critical")
             /\ RuleSet(benchmarks[id].special_rules, "high_rd_bonus"))
    /\ (industry # NoCall /\ "adjustment_factor" \in DOMAIN industry) =>
          /\ industry.adjustment_factor \in {100, 80, 110}
          /\ industry.adjustment_factor =
                IF FactorNotes = <<"cashflow_deteriorated">> THEN 80
                ELSE IF FactorNotes = <<"rd_bonus">> THEN 110
                ELSE 100
          /\ FactorNotes # <<>> => Len(FactorNotes) = 1

\* the cashflow penalty and the high debt note in one result
C27_Witness ==
    /\ industry # NoCall
    /\ "adjustment_factor" \in DOMAIN industry
    /\ industry.adjustment_notes = <<"high_debt_normal",
                                     "cashflow_deteriorated">>
    /\ industry.adjustment_factor = 80

\* the research bonus applied
C27_BonusReached ==
    /\ industry # NoCall
    /\ "adjustment_factor" \in DOMAIN industry
    /\ industry.adjustment_factor = 110

(***************************************************************************)
(* Properties of the range of calculate_health_score_v2 (SpecHealth)       *)
(***************************************************************************)
\* C28: total_score lies between 10 and 97: solvency is never below 5,
\* growth never below 5 and never above 12, so the nominal 100 is never
\* attained
C28_TotalBetween10And97 ==
    health # NoCall =>
        /\ health.total_score \in 10..97
        /\ health.dimensions.solvency.score >= 5
        /\ health.dimensions.growth.score \in 5..12

\* the best result: every dimension at its highest award
C28_Witness ==
    /\ health # NoCall
    /\ health.total_score = 97
    /\ health.dimensions.growth.score = 12

\* the worst result
C28_LowestReached ==
    /\ health # NoCall
    /\ health.total_score = 10

(***************************************************************************)
(* Properties of the finance prefix patterns (SpecClassify)                *)
(***************************************************************************)
\* the code of the security as the code rules see it: stripped and padded
\* with zeros to six characters (a six-digit code is left as it is)
SecurityCode == ZFill(Strip(security.stock_code.s), 6)

\* the code begins with 60 or 002 and no industry lists it as an example
FinancePrefixOnly ==
    /\ \/ StartsWith(SecurityCode, <<54, 48>>)        \* 60
       \/ StartsWith(SecurityCode, <<48, 48, 50>>)    \* 002
    /\ \A id \in DOMAIN benchmarks :
          SecurityCode \notin Range(benchmarks[id].stock_examples)

\* C29: with no sector tag, a code that begins with 60 or 002 and is in no
\* example list is classified as finance whatever the company name is; the
\* name keywords are not consulted
C29_FinancePrefixBeatsName ==
    (classified # NoCall /\ ~Truthy(security.sw_industry)
        /\ FinancePrefixOnly) =>
        classified = Str("finance")

\* such a code with a name that holds keywords of another industry and none
\* of finance
C29_Witness ==
    /\ classified = Str("finance")
    /\ ~Truthy(security.sw_industry)
    /\ FinancePrefixOnly
    /\ Truthy(security.company_name)
    /\ classify_by_name(security.company_name.s) # <<>>
    /\ "finance" \notin BestByName

(***************************************************************************)
(* Properties of the benchmark table (SpecIndustry)                        *)
(***************************************************************************)
\* the metric names the industry of the result has benchmarks for
BenchmarkedNames ==
    {c.name : c \in Range(benchmarks[industry.industry.id].metrics)}

\* C30: every benchmark of every industry has 0 < min < ideal < max and
\* 0 < weight <= 1, the weights of each industry sum to 1.0, and max_score
\* is 100 when every benchmarked metric of the industry resolves
C30_TableIsWellFormed ==
    /\ DOMAIN benchmarks = DOMAIN INDUSTRY_BENCHMARKS
    /\ \A id \in DOMAIN benchmarks :
          LET table == benchmarks[id].metrics
          IN  /\ \A i \in 1 .. Len(table) :
                    /\ 0 < table[i].min
                    /\ table[i].min < table[i].ideal
                    /\ table[i].ideal < table[i].max
                    /\ 0 < table[i].weight
                    /\ table[i].weight <= 100
              /\ SeqSum([i \in 1 .. Len(table) |-> table[i].weight]) = 100
    /\ (industry # NoCall
           /\ DOMAIN industry.dimension_scores = BenchmarkedNames) =>
          industry.max_score = 10000

\* a result in which every benchmarked metric of an industry with seven
\* benchmarks resolved
C30_Witness ==
    /\ industry # NoCall
    /\ DOMAIN industry.dimension_scores = BenchmarkedNames
    /\ Cardinality(BenchmarkedNames) = 7
    /\ industry.max_score = 10000

====
